---- MODULE Spec2Model ----
(***************************************************************************)
(* A model of jlcrs: the KiCad S-expression reader/writer, the KiCad       *)
(* object model's node mapping, the EasyEDA symbol and footprint           *)
(* translators and the import command that commits their output to disk.  *)
(*                                                                         *)
(* The module holds several specifications over one set of variables:      *)
(*   Spec        the import command of main.rs, step by step               *)
(*   SpecSyntax  tokenize / parse_syntax_item / stringify_tokens           *)
(*   SpecLayers  the layer list's serialize / deserialize                  *)
(*   SpecSymbol  the EasyEDA symbol translator (PART sections, units)      *)
(*   SpecPath    the footprint translator's path-expression decoder        *)
(*   SpecRecord  serialize / deserialize of KiCad records                  *)
(*   SpecSymbolTree  the same steps on the node of a symbol                *)
(*   SpecFootprint  the EasyEDA footprint translator (shapes, pads)        *)
(*   SpecGenerate   generate_tokens, the tokens of a tree                  *)
(*   SpecLine       SymbolElement::parse_line, one line of a symbol        *)
(*   SpecCompare    SyntaxItem::deep_equals on two trees                   *)
(*   SpecParse      EasyEDAFootprint::parse, the lines of a footprint      *)
(* Each specification leaves the variables of the others at their idle     *)
(* values.                                                                 *)
(***************************************************************************)
EXTENDS Integers, Sequences, FiniteSets, TLC

VARIABLES
    \* ---- the import command (main.rs) ----
    pc,             \* position of main() in its import
    update,         \* the --update flag of the running import
    device_name,    \* component_result.mpn of the running import
    has_model,      \* footprint_info.model_3d is Some
    symbol_lib,     \* the in-memory SymbolLib: sequence of symbol ids
    fs,             \* the project files on disk
    fs_at_start,    \* the project files when the running import started
    outcome,        \* "none", "ok", "err" (an Err returned) or "panic"
    imports,        \* number of imports started so far
    \* ---- the S-expression layer (kicad/syntax.rs) ----
    input,          \* the text handed to tokenize
    tokens,         \* tokenize(input)
    parsed,         \* parse_syntax_item(tokens)
    restrung,       \* stringify_tokens(tokens)
    retokens,       \* tokenize(restrung)
    syn_pc,
    \* ---- the layer list (kicad/model/footprint_library.rs) ----
    layer_list,     \* a Vec<PcbLayer>
    layers_item,    \* layer_list.serialize()
    layers_back,    \* Vec<PcbLayer>::deserialize(layers_item)
    lay_pc,
    \* ---- the symbol translator (easyeda/symbol.rs) ----
    elements,       \* EasyEDASymbol.elements
    converted,      \* the Result of try_into
    sym_pc,
    \* ---- the path decoder (easyeda/footprint.rs) ----
    path,           \* the JSON path array
    prepared,       \* the path after the two pre-processing passes
    commands,       \* the decoded PathCommands
    path_pc,
    \* ---- KiCad records (kicad/model) ----
    item,           \* the parsed node of a record
    record,         \* deserialize(item)
    item_ser,       \* record.serialize()
    record_back,    \* deserialize(item_ser)
    rec_pc,
    \* ---- the footprint translator (easyeda/footprint.rs) ----
    eda_footprint,  \* the EasyEDAFootprint the translator is handed
    footprint,      \* the Result of try_into and the FootprintLibrary built
    fp_pc,
    \* ---- the token writer (kicad/syntax.rs) ----
    tree,           \* the SyntaxItem handed to generate_tokens
    generated,      \* generate_tokens(tree)
    gen_pc,
    \* ---- the line decoder (easyeda/symbol.rs) ----
    line,           \* the line handed to SymbolElement::parse_line
    line_result,    \* what parse_line returned, or that it panicked
    line_pc,
    \* ---- the relaxed comparison (kicad/syntax.rs, dev.rs) ----
    left_item,      \* the tree deep_equals is called on
    right_item,     \* the tree it is compared with
    matches,        \* left_item.deep_equals(right_item)
    eq_pc,
    \* ---- the footprint decoder (easyeda/footprint.rs) ----
    payload,        \* the decoded lines of the footprint's data string
    parsed_footprint, \* what EasyEDAFootprint::parse came to
    parse_pc

vars == <<pc, update, device_name, has_model, symbol_lib, fs, fs_at_start,
          outcome, imports,
          input, tokens, parsed, restrung, retokens, syn_pc,
          layer_list, layers_item, layers_back, lay_pc,
          elements, converted, sym_pc,
          path, prepared, commands, path_pc,
          item, record, item_ser, record_back, rec_pc,
          eda_footprint, footprint, fp_pc,
          tree, generated, gen_pc,
          line, line_result, line_pc,
          left_item, right_item, matches, eq_pc,
          payload, parsed_footprint, parse_pc>>

importVars == <<pc, update, device_name, has_model, symbol_lib, fs,
                fs_at_start, outcome, imports>>
syntaxVars == <<input, tokens, parsed, restrung, retokens, syn_pc>>
layerVars  == <<layer_list, layers_item, layers_back, lay_pc>>
symbolVars == <<elements, converted, sym_pc>>
pathVars   == <<path, prepared, commands, path_pc>>
recordVars == <<item, record, item_ser, record_back, rec_pc>>
footprintVars == <<eda_footprint, footprint, fp_pc>>
generateVars == <<tree, generated, gen_pc>>
lineVars == <<line, line_result, line_pc>>
compareVars == <<left_item, right_item, matches, eq_pc>>
parseVars == <<payload, parsed_footprint, parse_pc>>
lastVars == <<compareVars, parseVars>>
laterVars == <<footprintVars, generateVars, lineVars, lastVars>>

----------------------------------------------------------------------------
(* General helpers *)

Range(s) == {s[i] : i \in 1..Len(s)}

RECURSIVE SeqsUpTo(_, _)
SeqsUpTo(S, n) ==
    IF n = 0 THEN {<<>>}
    ELSE LET shorter == SeqsUpTo(S, n - 1)
         IN  shorter \cup {Append(s, x) : s \in {t \in shorter : Len(t) = n - 1}, x \in S}

RECURSIVE SelectSeqBy(_, _)
\* the subsequence of s whose elements are in S
SelectSeqBy(s, S) ==
    IF s = <<>> THEN <<>>
    ELSE IF Head(s) \in S THEN <<Head(s)>> \o SelectSeqBy(Tail(s), S)
    ELSE SelectSeqBy(Tail(s), S)

Contains(s, x) == \E i \in 1..Len(s) : s[i] = x

----------------------------------------------------------------------------
(* The import command: main.rs, Command::Import                            *)

MaxImports == 2

DeviceNames == {"R1", "U2"}

\* the single library the imports go to (--name)
library_name == "lib"

FsEmpty ==
    [ sym_lib    |-> [exists |-> FALSE, symbols |-> <<>>],
      step       |-> {},
      footprints |-> {},
      sym_table  |-> [exists |-> FALSE, libraries |-> <<>>],
      fp_table   |-> [exists |-> FALSE, libraries |-> <<>>],
      dirs       |-> {} ]

\* the files of the library: everything but the directories
LibraryFiles(f) == [f EXCEPT !.dirs = {}]

ImportIdle ==
    /\ pc = "idle"
    /\ update = FALSE
    /\ device_name = "R1"
    /\ has_model = FALSE
    /\ symbol_lib = <<>>
    /\ fs = FsEmpty
    /\ fs_at_start = FsEmpty
    /\ outcome = "none"
    /\ imports = 0

ImportInit == ImportIdle

Fail(kind) ==
    /\ pc' = "idle"
    /\ outcome' = kind

\* main.rs 24-47: the command starts; the directory of --root is created
\* when it is missing (30-34), then the LCSC code is validated (38-43)
StartImport ==
    /\ pc = "idle"
    /\ imports < MaxImports
    /\ imports' = imports + 1
    /\ \E u \in BOOLEAN, d \in DeviceNames, m \in BOOLEAN, valid \in BOOLEAN,
          root \in BOOLEAN, created \in BOOLEAN :
          /\ update' = u
          /\ device_name' = d
          /\ has_model' = m
          /\ IF root /\ "root" \notin fs.dirs /\ ~created
             THEN Fail("err") /\ fs' = fs
             ELSE /\ fs' = IF root THEN [fs EXCEPT !.dirs = @ \cup {"root"}] ELSE fs
                  /\ IF valid THEN pc' = "fetch" /\ outcome' = "none"
                              ELSE Fail("err")
    /\ fs_at_start' = fs
    /\ symbol_lib' = <<>>

\* main.rs 48-58: the product search; any `?` or a missing product ends it
FetchComponent ==
    /\ pc = "fetch"
    /\ \E ok \in BOOLEAN :
          IF ok THEN pc' = "convert" /\ outcome' = outcome
                ELSE Fail("err")
    /\ UNCHANGED <<update, device_name, has_model, symbol_lib, fs,
                   fs_at_start, imports>>

\* main.rs 62-102: parse and convert both payloads, add the properties
ConvertComponent ==
    /\ pc = "convert"
    /\ \E r \in {"ok", "err", "panic"} :
          IF r = "ok" THEN pc' = "read_sym_lib" /\ outcome' = outcome
                      ELSE Fail(r)
    /\ UNCHANGED <<update, device_name, has_model, symbol_lib, fs,
                   fs_at_start, imports>>

\* main.rs 104-132 without the test of lines 125-127: an existing symbol is
\* replaced whether or not --update was given
ReadSymbolLib_NoCheck ==
    /\ pc = "read_sym_lib"
    /\ LET lib == IF fs.sym_lib.exists THEN fs.sym_lib.symbols ELSE <<>>
           existing == Contains(lib, device_name)
       IN  \E read \in {"ok", "err", "panic"} :
           IF fs.sym_lib.exists /\ read # "ok"
           THEN Fail(read) /\ UNCHANGED symbol_lib
           ELSE /\ symbol_lib' = IF existing THEN lib ELSE Append(lib, device_name)
                /\ pc' = IF has_model THEN "step_model" ELSE "write_sym_lib"
                /\ outcome' = outcome
    /\ UNCHANGED <<update, device_name, has_model, fs, fs_at_start, imports>>

\* main.rs 104-132: read or create the symbol library, the duplicate check
\* (read: fs::read_to_string of an existing library returned Ok, returned
\* Err, or its text made the parser panic)
ReadSymbolLib ==
    /\ pc = "read_sym_lib"
    /\ LET lib == IF fs.sym_lib.exists THEN fs.sym_lib.symbols ELSE <<>>
           existing == Contains(lib, device_name)
       IN  \E read \in {"ok", "err", "panic"} :
           IF fs.sym_lib.exists /\ read # "ok"
           THEN Fail(read) /\ UNCHANGED symbol_lib
           ELSE IF ~update /\ existing
           THEN Fail("err") /\ UNCHANGED symbol_lib
           ELSE /\ symbol_lib' = IF existing THEN lib ELSE Append(lib, device_name)
                /\ pc' = IF has_model THEN "step_model" ELSE "write_sym_lib"
                /\ outcome' = outcome
    /\ UNCHANGED <<update, device_name, has_model, fs, fs_at_start, imports>>

\* main.rs 134-197: the STEP model. found: both HTTP calls answered;
\* written: fs::write(model_path) returned Ok; read: Shape::read_step and
\* the transform parsing succeeded
DownloadStepModel ==
    /\ pc = "step_model"
    /\ \E found \in BOOLEAN, body \in BOOLEAN, written \in BOOLEAN,
          read \in {"ok", "err", "panic"} :
          IF ~found THEN pc' = "write_sym_lib" /\ outcome' = outcome /\ fs' = fs
          ELSE IF ~body THEN Fail("err") /\ fs' = fs
          ELSE IF ~written
               THEN Fail("err") /\ fs' = [fs EXCEPT !.dirs = @ \cup {"pretty", "models"}]
          ELSE /\ fs' = [fs EXCEPT !.dirs = @ \cup {"pretty", "models"},
                                   !.step = @ \cup {device_name}]
               /\ IF read = "ok" THEN pc' = "write_sym_lib" /\ outcome' = outcome
                                 ELSE Fail(read)
    /\ UNCHANGED <<update, device_name, has_model, symbol_lib, fs_at_start,
                   imports>>

\* main.rs 199-202: serialize and write the symbol library
WriteSymbolLib ==
    /\ pc = "write_sym_lib"
    /\ \E ok \in BOOLEAN :
          IF ok THEN /\ fs' = [fs EXCEPT !.sym_lib =
                                  [exists |-> TRUE, symbols |-> symbol_lib]]
                     /\ pc' = "write_footprint" /\ outcome' = outcome
                ELSE Fail("err") /\ fs' = fs
    /\ UNCHANGED <<update, device_name, has_model, symbol_lib, fs_at_start,
                   imports>>

\* main.rs 204-213: create the .pretty directory, write the footprint
WriteFootprint ==
    /\ pc = "write_footprint"
    /\ \E dir_ok \in BOOLEAN, ok \in BOOLEAN :
          IF ~dir_ok /\ "pretty" \notin fs.dirs
          THEN Fail("err") /\ fs' = fs
          ELSE IF ~ok
               THEN Fail("err") /\ fs' = [fs EXCEPT !.dirs = @ \cup {"pretty"}]
          ELSE /\ fs' = [fs EXCEPT !.dirs = @ \cup {"pretty"},
                                   !.footprints = @ \cup {device_name}]
               /\ pc' = "sym_table" /\ outcome' = outcome
    /\ UNCHANGED <<update, device_name, has_model, symbol_lib, fs_at_start,
                   imports>>

\* the two library-table steps of the import (main.rs 215-279) follow the
\* library tables' model below

----------------------------------------------------------------------------
(* The S-expression layer: kicad/syntax.rs                                 *)
(* Text is a sequence of one-character strings.  Source offsets of tokens  *)
(* are left out: nothing but panic messages reads them.                    *)

DQ == "\""
LF == "\n"
CR == "\r"
SP == " "

Digits == {"0", "1", "2", "3", "4", "5", "6", "7", "8", "9"}
Letters == {"a", "b", "c", "d", "e", "f", "g", "h", "i", "j", "k", "l", "m",
            "n", "o", "p", "q", "r", "s", "t", "u", "v", "w", "x", "y", "z",
            "A", "E", "N"}

DigitVal == ("0" :> 0) @@ ("1" :> 1) @@ ("2" :> 2) @@ ("3" :> 3) @@ ("4" :> 4)
            @@ ("5" :> 5) @@ ("6" :> 6) @@ ("7" :> 7) @@ ("8" :> 8) @@ ("9" :> 9)
DigitChar == <<"0", "1", "2", "3", "4", "5", "6", "7", "8", "9">>

\* syntax.rs 421-423
is_char_identifier_or_numeric(ch) ==
    ch \in Letters \cup Digits \cup {"_", "-", ".", "*", "%"}

(* f32 values: a sign, a mantissa without trailing zeros and a decimal     *)
(* exponent; sp tells the infinities and NaN from the finite values.       *)
(* Rounding to 24 bits is left out: Display prints the shortest digits     *)
(* that parse back to the same f32, so the values met here are the ones    *)
(* whose decimal notation is exact.  NoNumber is the Err of parse::<f32>.  *)
NoNumber == [ok |-> FALSE, neg |-> FALSE, m |-> 0, e |-> 0, sp |-> "finite"]

Infinite(neg) == [ok |-> TRUE, neg |-> neg, m |-> 0, e |-> 0, sp |-> "inf"]
NaN(neg) == [ok |-> TRUE, neg |-> neg, m |-> 0, e |-> 0, sp |-> "nan"]

RECURSIVE Normalize(_, _, _)
Normalize(neg, m, e) ==
    IF m = 0 THEN [ok |-> TRUE, neg |-> neg, m |-> 0, e |-> 0, sp |-> "finite"]
    ELSE IF m % 10 = 0 THEN Normalize(neg, m \div 10, e + 1)
    ELSE [ok |-> TRUE, neg |-> neg, m |-> m, e |-> e, sp |-> "finite"]

RECURSIVE DigitsValue(_, _)
\* the number written by a sequence of digit characters
DigitsValue(ds, acc) ==
    IF ds = <<>> THEN acc
    ELSE DigitsValue(Tail(ds), acc * 10 + DigitVal[Head(ds)])

AllDigits(s) == \A i \in 1..Len(s) : s[i] \in Digits

IndexOf(s, S) ==
    \* the first index of s holding a member of S, or 0
    IF \E i \in 1..Len(s) : s[i] \in S
    THEN CHOOSE i \in 1..Len(s) : s[i] \in S /\ \A j \in 1..(i - 1) : s[j] \notin S
    ELSE 0

\* str::parse::<f32> on a run of identifier characters (syntax.rs 212):
\* [-] digits [. digits] [e|E [-] digits], at least one mantissa digit,
\* or [-] inf | infinity | nan (in lower case, and NaN as Display writes it)
ParseF32(str) ==
    LET neg  == str # <<>> /\ Head(str) = "-"
        body == IF neg THEN Tail(str) ELSE str
        isInf == body \in {<<"i","n","f">>, <<"i","n","f","i","n","i","t","y">>}
        isNaN == body \in {<<"n","a","n">>, <<"N","a","N">>}
        ePos == IndexOf(body, {"e", "E"})
        mant == IF ePos = 0 THEN body ELSE SubSeq(body, 1, ePos - 1)
        expo == IF ePos = 0 THEN <<>> ELSE SubSeq(body, ePos + 1, Len(body))
        eNeg == expo # <<>> /\ Head(expo) = "-"
        eDig == IF eNeg THEN Tail(expo) ELSE expo
        dot  == IndexOf(mant, {"."})
        ip   == IF dot = 0 THEN mant ELSE SubSeq(mant, 1, dot - 1)
        fp   == IF dot = 0 THEN <<>> ELSE SubSeq(mant, dot + 1, Len(mant))
        expOk == ePos = 0 \/ (eDig # <<>> /\ AllDigits(eDig))
        manOk == AllDigits(ip) /\ AllDigits(fp) /\ Len(ip) + Len(fp) > 0
        ev   == IF ePos = 0 THEN 0
                ELSE IF eNeg THEN 0 - DigitsValue(eDig, 0) ELSE DigitsValue(eDig, 0)
    IN  IF isInf THEN Infinite(neg)
        ELSE IF isNaN THEN NaN(neg)
        ELSE IF expOk /\ manOk
        THEN Normalize(neg, DigitsValue(ip \o fp, 0), ev - Len(fp))
        ELSE NoNumber

RECURSIVE ToDigits(_)
ToDigits(n) ==
    IF n < 10 THEN <<DigitChar[n + 1]>>
    ELSE Append(ToDigits(n \div 10), DigitChar[(n % 10) + 1])

Zeros(k) == [i \in 1..k |-> "0"]

\* format!("{}", f32): plain decimal notation, shortest digits (syntax.rs 154, 405)
DisplayF32(v) ==
    LET ds == ToDigits(v.m)
        k  == 0 - v.e
        body == IF v.e >= 0 THEN ds \o Zeros(v.e)
                ELSE IF Len(ds) > k
                     THEN SubSeq(ds, 1, Len(ds) - k) \o <<".">> \o SubSeq(ds, Len(ds) - k + 1, Len(ds))
                     ELSE <<"0", ".">> \o Zeros(k - Len(ds)) \o ds
    IN  IF v.sp = "nan" THEN <<"N", "a", "N">>
        ELSE IF v.sp = "inf"
        THEN (IF v.neg THEN <<"-">> ELSE <<>>) \o <<"i", "n", "f">>
        ELSE IF v.neg THEN <<"-">> \o body ELSE body

\* f32 == : the two zeros are equal, NaN equals nothing
F32Eq(a, b) ==
    /\ a.sp # "nan" /\ b.sp # "nan"
    /\ a.sp = b.sp
    /\ a.m = b.m /\ a.e = b.e
    /\ (a.neg = b.neg \/ (a.m = 0 /\ a.sp = "finite"))

\* Token (syntax.rs 4-11), without the offset
OpenParen == [kind |-> "OpenParen", str |-> <<>>, num |-> NoNumber]
CloseParen == [kind |-> "CloseParen", str |-> <<>>, num |-> NoNumber]
Identifier(s) == [kind |-> "Identifier", str |-> s, num |-> NoNumber]
QuotedString(s) == [kind |-> "QuotedString", str |-> s, num |-> NoNumber]
Number(v) == [kind |-> "Number", str |-> <<>>, num |-> v]

\* #[derive(PartialEq)] on Token, offsets aside
TokenEq(a, b) ==
    /\ a.kind = b.kind
    /\ a.str = b.str
    /\ (a.kind = "Number" => F32Eq(a.num, b.num))

TokensEq(s, t) ==
    /\ Len(s) = Len(t)
    /\ \A i \in 1..Len(s) : TokenEq(s[i], t[i])

\* the first index >= i where s holds a member of S, or Len(s) + 1
NextIn(s, i, S) ==
    IF \E j \in i..Len(s) : s[j] \in S
    THEN CHOOSE j \in i..Len(s) : s[j] \in S /\ \A k \in i..(j - 1) : s[k] \notin S
    ELSE Len(s) + 1

\* the first index >= i where s holds a character that ends a run
RunEnd(s, i) ==
    IF \E j \in i..Len(s) : ~is_char_identifier_or_numeric(s[j])
    THEN CHOOSE j \in i..Len(s) :
            /\ ~is_char_identifier_or_numeric(s[j])
            /\ \A k \in i..(j - 1) : is_char_identifier_or_numeric(s[k])
    ELSE Len(s) + 1

RECURSIVE TokenizeFrom(_, _, _)
\* syntax.rs 169-223: the scanning loop from character i on
TokenizeFrom(s, i, acc) ==
    IF i > Len(s) THEN [panic |-> FALSE, tokens |-> acc]
    ELSE LET ch == s[i]
         IN  IF ch \in {CR, LF, SP} THEN TokenizeFrom(s, i + 1, acc)
             ELSE IF ch = "(" THEN TokenizeFrom(s, i + 1, Append(acc, OpenParen))
             ELSE IF ch = ")" THEN TokenizeFrom(s, i + 1, Append(acc, CloseParen))
             ELSE IF ch = DQ
                  THEN LET close == NextIn(s, i + 1, {DQ})
                       IN  TokenizeFrom(s, close + 1,
                               Append(acc, QuotedString(SubSeq(s, i + 1, close - 1))))
             ELSE IF is_char_identifier_or_numeric(ch)
                  THEN LET end == RunEnd(s, i)
                           run == SubSeq(s, i, end - 1)
                           v   == ParseF32(run)
                       IN  IF end <= Len(s) /\ s[end] \notin {SP, ")", CR, LF}
                           THEN [panic |-> TRUE, tokens |-> acc]
                           ELSE TokenizeFrom(s, end,
                                   Append(acc, IF v.ok THEN Number(v) ELSE Identifier(run)))
             ELSE TokenizeFrom(s, i + 1, acc)

\* KiCadParser::tokenize (syntax.rs 164-226)
tokenize(s) == TokenizeFrom(s, 1, <<>>)

\* SyntaxItem (syntax.rs 33-38) and SyntaxArgument (syntax.rs 132-137)
EmptyName == <<>>
SyntaxItem(n, a, c) == [name |-> n, arguments |-> a, children |-> c]
NoItem == SyntaxItem(EmptyName, <<>>, <<>>)
SyntaxArgument(k, s, v, p) == [kind |-> k, str |-> s, num |-> v, pref |-> p]

\* the argument a value token becomes (syntax.rs 255, 265, 272)
ArgumentOf(tok) == SyntaxArgument(tok.kind, tok.str, tok.num, "None")

\* syntax.rs 231-278: one turn of the loop; items is the VecDeque, front first
ParseToken(items, tok) ==
    IF tok.kind = "OpenParen"
    THEN [panic |-> FALSE, items |-> <<NoItem>> \o items]
    ELSE IF items = <<>>
    THEN [panic |-> TRUE, items |-> items]
    ELSE IF tok.kind = "CloseParen"
    THEN LET current_element == Head(items)
             rest == Tail(items)
         IN  IF rest # <<>>
             THEN [panic |-> FALSE,
                   items |-> <<[Head(rest) EXCEPT !.children = Append(@, current_element)]>>
                             \o Tail(rest)]
             ELSE [panic |-> FALSE, items |-> <<current_element>>]
    ELSE IF tok.kind = "Identifier" /\ Head(items).name = EmptyName
    THEN [panic |-> FALSE, items |-> <<[Head(items) EXCEPT !.name = tok.str]>> \o Tail(items)]
    ELSE [panic |-> FALSE,
          items |-> <<[Head(items) EXCEPT !.arguments = Append(@, ArgumentOf(tok))]>>
                    \o Tail(items)]

RECURSIVE ParseFrom(_, _, _)
ParseFrom(toks, i, items) ==
    IF i > Len(toks)
    THEN IF items = <<>> THEN [panic |-> TRUE, item |-> NoItem]
                         ELSE [panic |-> FALSE, item |-> Head(items)]
    ELSE LET r == ParseToken(items, toks[i])
         IN  IF r.panic THEN [panic |-> TRUE, item |-> NoItem]
                        ELSE ParseFrom(toks, i + 1, r.items)

\* KiCadParser::parse_syntax_item (syntax.rs 228-281)
parse_syntax_item(toks) == ParseFrom(toks, 1, <<>>)

\* TopLevelSerializable::get_same_line_identifiers for SymbolLib
\* (symbol_library.rs 732-738), the names the model's texts use
same_line_identifiers ==
    { <<"v","e","r","s","i","o","n">>, <<"g","e","n","e","r","a","t","o","r">>,
      <<"a","t">>, <<"f","o","n","t">>, <<"s","i","z","e">>,
      <<"j","u","s","t","i","f","y">>, <<"l","e","n","g","t","h">>,
      <<"t","y","p","e">>, <<"e","n","d">> }

effects_same_line_after == { <<"n","a","m","e">>, <<"n","u","m","b","e","r">> }

effects == <<"e","f","f","e","c","t","s">>

Spaces(k) == [i \in 1..k |-> SP]

EndsWithSpace(s) == s # <<>> /\ s[Len(s)] = SP

\* the text of a value token (syntax.rs 392-409), without the space after it
TokenText(tok) ==
    IF tok.kind = "QuotedString" THEN <<DQ>> \o tok.str \o <<DQ>>
    ELSE IF tok.kind = "Identifier" THEN tok.str
    ELSE DisplayF32(tok.num)

\* a writer that pushes no space after a token
SpaceBefore_Never(toks, i) == <<>>

\* the space pushed after a token unless a CloseParen or nothing follows
SpaceBefore(toks, i) ==
    IF i < Len(toks) /\ toks[i + 1].kind # "CloseParen" THEN <<SP>> ELSE <<>>

RECURSIVE StringifyFrom(_, _, _)
\* syntax.rs 326-416: st holds the loop's variables
StringifyFrom(toks, i, st) ==
    IF i > Len(toks) THEN [panic |-> FALSE, string |-> st.string]
    ELSE
    LET token == toks[i]
        peekIdent == i < Len(toks) /\ toks[i + 1].kind = "Identifier"
        pushes == token.kind = "OpenParen" /\ peekIdent
        same_line == pushes /\ toks[i + 1].str \in same_line_identifiers
        identifier_stack == IF pushes THEN <<toks[i + 1].str>> \o st.identifier_stack
                                      ELSE st.identifier_stack
        hasTop == identifier_stack # <<>>
    IN
    IF token.kind = "OpenParen"
    THEN LET force_skip_new_line ==
                 /\ peekIdent
                 /\ Len(identifier_stack) >= 2
                 /\ toks[i + 1].str = effects
                 /\ identifier_stack[2] \in effects_same_line_after
             trimmed == IF EndsWithSpace(st.string)
                        THEN SubSeq(st.string, 1, Len(st.string) - 1) ELSE st.string
             string == IF ~force_skip_new_line /\ ~same_line
                       THEN trimmed \o <<LF>> \o Spaces(st.indent * 2)
                       ELSE st.string
         IN  StringifyFrom(toks, i + 1,
                 [st EXCEPT !.string = string \o <<"(">>,
                            !.indent = st.indent + 1,
                            !.identifier_stack = identifier_stack,
                            !.last_token_is_closing_paren = FALSE])
    ELSE IF token.kind = "CloseParen"
    THEN IF st.indent = 0
         THEN [panic |-> TRUE, string |-> st.string]      \* usize underflow
         ELSE
         LET indent == st.indent - 1
             effectsTop == hasTop /\ Head(identifier_stack) = effects
             force_skip_new_line ==
                 \/ effectsTop /\ Len(identifier_stack) >= 2
                    /\ identifier_stack[2] \in effects_same_line_after
                 \/ hasTop /\ st.has_last_popped
                    /\ st.last_popped_item_name = effects
                    /\ Head(identifier_stack) \in effects_same_line_after
                 \/ hasTop /\ st.has_last_popped
                    /\ st.last_popped_item_name \in same_line_identifiers
             unwrapNone ==
                 st.last_token_is_closing_paren
                 /\ (\/ effectsTop /\ Len(identifier_stack) < 2
                     \/ ~hasTop)
             newline == /\ st.last_token_is_closing_paren
                        /\ ~force_skip_new_line
                        /\ Head(identifier_stack) \notin same_line_identifiers
             string == (IF newline THEN st.string \o <<LF>> \o Spaces(indent * 2)
                                   ELSE st.string)
                       \o <<")">> \o SpaceBefore(toks, i)
         IN  IF unwrapNone THEN [panic |-> TRUE, string |-> st.string]
             ELSE StringifyFrom(toks, i + 1,
                 [st EXCEPT !.string = string,
                            !.indent = indent,
                            !.identifier_stack = IF hasTop THEN Tail(identifier_stack) ELSE <<>>,
                            !.has_last_popped = hasTop,
                            !.last_popped_item_name =
                                 IF hasTop THEN Head(identifier_stack) ELSE EmptyName,
                            !.last_token_is_closing_paren = TRUE])
    ELSE StringifyFrom(toks, i + 1,
             [st EXCEPT !.string = st.string \o TokenText(token) \o SpaceBefore(toks, i),
                        !.last_token_is_closing_paren = FALSE])

\* KiCadParser::stringify_tokens::<SymbolLib> (syntax.rs 313-419)
stringify_tokens(toks) ==
    StringifyFrom(toks, 1,
        [string |-> <<>>, indent |-> 0, last_token_is_closing_paren |-> FALSE,
         identifier_stack |-> <<>>, has_last_popped |-> FALSE,
         last_popped_item_name |-> EmptyName])

----------------------------------------------------------------------------
(* SpecSyntax: texts are tokenized, parsed, written back and tokenized     *)
(* again.                                                                  *)

MaxPieces == 5

\* the lexemes the small texts are made of, joined by single spaces
Pieces == { <<"(">>, <<")">>, <<"a">>, <<"a", "t">>, <<".", "1">>, <<DQ, "s", DQ>> }

RECURSIVE JoinPieces(_)
JoinPieces(ps) ==
    IF ps = <<>> THEN <<>>
    ELSE IF Len(ps) = 1 THEN ps[1]
    ELSE ps[1] \o <<SP>> \o JoinPieces(Tail(ps))

SmallTexts == { JoinPieces(ps) : ps \in SeqsUpTo(Pieces, MaxPieces) }

\* spec.md S1: an empty symbol library
TextSymbolLib ==
    <<"(", "k", "i", "c", "a", "d", "_", "s", "y", "m", "b", "o", "l", "_",
      "l", "i", "b", SP, "(", "v", "e", "r", "s", "i", "o", "n", SP, "2",
      "0", "2", "1", "1", "0", "1", "4", ")", SP, "(", "g", "e", "n", "e",
      "r", "a", "t", "o", "r", SP, "j", "l", "c", "r", "s", ")", ")">>

\* spec.md S2: a pin, cut after its name
TextPin ==
    <<"(", "p", "i", "n", SP, "i", "n", "p", "u", "t", SP, "l", "i", "n",
      "e", SP, "(", "a", "t", SP, "0", SP, "0", SP, "0", ")", SP, "(", "l",
      "e", "n", "g", "t", "h", SP, "2", ".", "5", "4", ")", LF, SP, SP,
      "(", "n", "a", "m", "e", SP, DQ, "A", DQ, SP, "(", "e", "f", "f",
      "e", "c", "t", "s", SP, "(", "f", "o", "n", "t", SP, "(", "s", "i",
      "z", "e", SP, "1", ".", "2", "7", SP, "1", ".", "2", "7", ")", ")",
      ")", ")", ")">>

\* the number notations f32 parsing accepts
TextNumbers ==
    <<"(", "a", SP, "1", "e", "1", SP, "-", "0", SP, "1", ".", "0", SP,
      ".", "5", SP, DQ, "x", SP, "y", DQ, SP, DQ, DQ, ")">>

\* a quote glued to an identifier
TextGlued ==
    <<"(", "a", DQ, "s", DQ, ")">>

\* a value beyond f32's range is read as an infinity
TextInf ==
    <<"(", "a", SP, "i", "n", "f", SP, "-", "i", "n", "f", ")">>

Corpus == {TextSymbolLib, TextPin, TextNumbers, TextGlued, TextInf}

NoTokens == [panic |-> FALSE, tokens |-> <<>>]
NoParse == [panic |-> FALSE, item |-> NoItem]
NoString == [panic |-> FALSE, string |-> <<>>]

SyntaxIdle ==
    /\ input = <<>>
    /\ tokens = NoTokens
    /\ parsed = NoParse
    /\ restrung = NoString
    /\ retokens = NoTokens
    /\ syn_pc = "idle"

SyntaxInit ==
    /\ input \in SmallTexts \cup Corpus
    /\ tokens = NoTokens
    /\ parsed = NoParse
    /\ restrung = NoString
    /\ retokens = NoTokens
    /\ syn_pc = "input"

RECURSIVE DepthAfter(_, _)
\* the number of nodes open after the first i tokens
DepthAfter(toks, i) ==
    IF i = 0 THEN 0
    ELSE DepthAfter(toks, i - 1)
         + (IF toks[i].kind = "OpenParen" THEN 1
            ELSE IF toks[i].kind = "CloseParen" THEN -1 ELSE 0)

\* a token stream of a KiCad file: one top-level node, every node named
ValidKiCadTokens(toks) ==
    /\ toks # <<>>
    /\ toks[1].kind = "OpenParen"
    /\ DepthAfter(toks, Len(toks)) = 0
    /\ \A i \in 1..(Len(toks) - 1) : DepthAfter(toks, i) > 0
    /\ \A i \in 1..(Len(toks) - 1) :
          toks[i].kind = "OpenParen" => toks[i + 1].kind = "Identifier"

Tokenize ==
    /\ syn_pc = "input"
    /\ tokens' = tokenize(input)
    /\ syn_pc' = IF tokens'.panic THEN "panic" ELSE "tokenized"
    /\ UNCHANGED <<input, parsed, restrung, retokens>>

Parse ==
    /\ syn_pc = "tokenized"
    /\ parsed' = parse_syntax_item(tokens.tokens)
    /\ syn_pc' = "parsed"
    /\ UNCHANGED <<input, tokens, restrung, retokens>>

\* the writer is handed streams of generate_tokens' shape only
Stringify ==
    /\ syn_pc = "parsed"
    /\ ValidKiCadTokens(tokens.tokens)
    /\ restrung' = stringify_tokens(tokens.tokens)
    /\ syn_pc' = IF restrung'.panic THEN "panic" ELSE "restrung"
    /\ UNCHANGED <<input, tokens, parsed, retokens>>

Retokenize ==
    /\ syn_pc = "restrung"
    /\ retokens' = tokenize(restrung.string)
    /\ syn_pc' = "retokenized"
    /\ UNCHANGED <<input, tokens, parsed, restrung>>

----------------------------------------------------------------------------
(* Claims about the S-expression layer                                     *)

\* C3: tokenizing the text that stringify_tokens writes for the token
\* stream of a valid KiCad text gives tokens of the same kinds and values,
\* in the same order.
C3_TokenRoundTrip ==
    syn_pc = "retokenized" =>
        /\ ~retokens.panic
        /\ TokensEq(retokens.tokens, tokens.tokens)

\* a round trip of a nested text with numbers that are written differently
\* from the way they were read
C3_Witness ==
    /\ syn_pc = "retokenized"
    /\ restrung.string # input
    /\ \E i \in 1..Len(tokens.tokens) :
          /\ tokens.tokens[i].kind = "Number"
          /\ DepthAfter(tokens.tokens, i) >= 2
    /\ \E i \in 1..Len(tokens.tokens) : tokens.tokens[i].kind = "QuotedString"
    /\ TokensEq(retokens.tokens, tokens.tokens)

\* the token stream ends with a node still open, or closes a node where
\* none is open
Unbalanced(toks) ==
    \/ DepthAfter(toks, Len(toks)) > 0
    \/ \E i \in 1..Len(toks) :
          toks[i].kind = "CloseParen" /\ DepthAfter(toks, i - 1) = 0

\* C4: parse_syntax_item fails, returning no node, for every unbalanced
\* token sequence.
C4_UnbalancedFails ==
    (syn_pc = "parsed" /\ Unbalanced(tokens.tokens)) => parsed.panic

\* the index of the CloseParen that ends the first top-level node, or 0
FirstTopLevelClose(toks) ==
    IF \E i \in 1..Len(toks) : toks[i].kind = "CloseParen" /\ DepthAfter(toks, i) = 0
    THEN CHOOSE i \in 1..Len(toks) :
            /\ toks[i].kind = "CloseParen" /\ DepthAfter(toks, i) = 0
            /\ \A j \in 1..(i - 1) :
                  ~(toks[j].kind = "CloseParen" /\ DepthAfter(toks, j) = 0)
    ELSE 0

\* a value token or an OpenParen follows the end of the first top-level node
TrailingTokens(toks) ==
    LET c == FirstTopLevelClose(toks)
    IN  /\ c > 0
        /\ toks[1].kind = "OpenParen"
        /\ \E i \in (c + 1)..Len(toks) : toks[i].kind # "CloseParen"

\* an unclosed text for which the parser returns the innermost open node,
\* and a text with one CloseParen too many for which it returns the node
C4_UnbalancedAccepted ==
    /\ syn_pc = "parsed"
    /\ ~parsed.panic
    /\ \/ /\ input = <<"(", SP, "a", SP, "(", SP, "a", "t">>
          /\ parsed.item = SyntaxItem(<<"a", "t">>, <<>>, <<>>)
       \/ /\ input = <<"(", SP, "a", SP, ")", SP, ")">>
          /\ parsed.item = SyntaxItem(<<"a">>, <<>>, <<>>)

\* C5: parse_syntax_item accepts one top-level node only: with a value token
\* or an OpenParen after the first top-level CloseParen parsing fails, and
\* the token is not added to the node returned.
C5_OneTopLevelNode ==
    (syn_pc = "parsed" /\ TrailingTokens(tokens.tokens)) => parsed.panic

\* a number after the top-level node is closed becomes its argument
C5_TrailingTokenAdded ==
    /\ syn_pc = "parsed"
    /\ input = <<"(", SP, "a", SP, ")", SP, ".", "1">>
    /\ ~parsed.panic
    /\ parsed.item.name = <<"a">>
    /\ Len(parsed.item.arguments) = 1
    /\ parsed.item.arguments[1].kind = "Number"

----------------------------------------------------------------------------
(* The layer list: impl SyntaxItemSerializable for Vec<PcbLayer>           *)
(* (kicad/model/footprint_library.rs)                                      *)

\* PcbLayer::iter(): the variants in declaration order (389-449)
PcbLayer ==
    <<"FCu", "In1Cu", "In2Cu", "In3Cu", "In4Cu", "In5Cu", "In6Cu", "In7Cu",
      "In8Cu", "In9Cu", "In10Cu", "In11Cu", "In12Cu", "In13Cu", "In14Cu",
      "In15Cu", "In16Cu", "In17Cu", "In18Cu", "In19Cu", "In20Cu", "In21Cu",
      "In22Cu", "In23Cu", "In24Cu", "In25Cu", "In26Cu", "In27Cu", "In28Cu",
      "In29Cu", "In30Cu", "BCu", "BAdhes", "FAdhes", "BPaste", "FPaste",
      "BSilkS", "FSilkS", "BMask", "FMask", "DwgsUser", "CmtsUser",
      "Eco1User", "Eco2User", "EdgeCuts", "FCrtYd", "BCrtYd", "FFab",
      "BFab", "User1", "User2", "User3", "User4", "User5", "User6",
      "User7", "User8", "User9">>

\* PcbLayer::to_string (516-577)
PcbLayerText ==
    [ FCu |-> <<"F",".","C","u">>,
      In1Cu |-> <<"I","n","1",".","C","u">>,
      In2Cu |-> <<"I","n","2",".","C","u">>,
      In3Cu |-> <<"I","n","3",".","C","u">>,
      In4Cu |-> <<"I","n","4",".","C","u">>,
      In5Cu |-> <<"I","n","5",".","C","u">>,
      In6Cu |-> <<"I","n","6",".","C","u">>,
      In7Cu |-> <<"I","n","7",".","C","u">>,
      In8Cu |-> <<"I","n","8",".","C","u">>,
      In9Cu |-> <<"I","n","9",".","C","u">>,
      In10Cu |-> <<"I","n","1","0",".","C","u">>,
      In11Cu |-> <<"I","n","1","1",".","C","u">>,
      In12Cu |-> <<"I","n","1","2",".","C","u">>,
      In13Cu |-> <<"I","n","1","3",".","C","u">>,
      In14Cu |-> <<"I","n","1","4",".","C","u">>,
      In15Cu |-> <<"I","n","1","5",".","C","u">>,
      In16Cu |-> <<"I","n","1","6",".","C","u">>,
      In17Cu |-> <<"I","n","1","7",".","C","u">>,
      In18Cu |-> <<"I","n","1","8",".","C","u">>,
      In19Cu |-> <<"I","n","1","9",".","C","u">>,
      In20Cu |-> <<"I","n","2","0",".","C","u">>,
      In21Cu |-> <<"I","n","2","1",".","C","u">>,
      In22Cu |-> <<"I","n","2","2",".","C","u">>,
      In23Cu |-> <<"I","n","2","3",".","C","u">>,
      In24Cu |-> <<"I","n","2","4",".","C","u">>,
      In25Cu |-> <<"I","n","2","5",".","C","u">>,
      In26Cu |-> <<"I","n","2","6",".","C","u">>,
      In27Cu |-> <<"I","n","2","7",".","C","u">>,
      In28Cu |-> <<"I","n","2","8",".","C","u">>,
      In29Cu |-> <<"I","n","2","9",".","C","u">>,
      In30Cu |-> <<"I","n","3","0",".","C","u">>,
      BCu |-> <<"B",".","C","u">>,
      BAdhes |-> <<"B",".","A","d","h","e","s">>,
      FAdhes |-> <<"F",".","A","d","h","e","s">>,
      BPaste |-> <<"B",".","P","a","s","t","e">>,
      FPaste |-> <<"F",".","P","a","s","t","e">>,
      BSilkS |-> <<"B",".","S","i","l","k","S">>,
      FSilkS |-> <<"F",".","S","i","l","k","S">>,
      BMask |-> <<"B",".","M","a","s","k">>,
      FMask |-> <<"F",".","M","a","s","k">>,
      DwgsUser |-> <<"D","w","g","s",".","U","s","e","r">>,
      CmtsUser |-> <<"C","m","t","s",".","U","s","e","r">>,
      Eco1User |-> <<"E","c","o","1",".","U","s","e","r">>,
      Eco2User |-> <<"E","c","o","2",".","U","s","e","r">>,
      EdgeCuts |-> <<"E","d","g","e",".","C","u","t","s">>,
      FCrtYd |-> <<"F",".","C","r","t","Y","d">>,
      BCrtYd |-> <<"B",".","C","r","t","Y","d">>,
      FFab |-> <<"F",".","F","a","b">>,
      BFab |-> <<"B",".","F","a","b">>,
      User1 |-> <<"U","s","e","r",".","1">>,
      User2 |-> <<"U","s","e","r",".","2">>,
      User3 |-> <<"U","s","e","r",".","3">>,
      User4 |-> <<"U","s","e","r",".","4">>,
      User5 |-> <<"U","s","e","r",".","5">>,
      User6 |-> <<"U","s","e","r",".","6">>,
      User7 |-> <<"U","s","e","r",".","7">>,
      User8 |-> <<"U","s","e","r",".","8">>,
      User9 |-> <<"U","s","e","r",".","9">> ]

to_string(l) == PcbLayerText[l]

RECURSIVE SplitOn(_, _)
\* str::split(ch)
SplitOn(s, ch) ==
    LET i == IndexOf(s, {ch})
    IN  IF i = 0 THEN <<s>>
        ELSE <<SubSeq(s, 1, i - 1)>> \o SplitOn(SubSeq(s, i + 1, Len(s)), ch)

\* SyntaxArgument::get_string (syntax.rs 148-158)
get_string(arg) == IF arg.kind = "Number" THEN DisplayF32(arg.num) ELSE arg.str

RECURSIVE ChunkBy(_, _)
\* chunk_by on the part of the name after the dot (1982-1991): runs of
\* consecutive variants with one key
ChunkBy(ls, acc) ==
    IF ls = <<>> THEN acc
    ELSE LET key == SplitOn(to_string(Head(ls)), ".")[2]
         IN  IF acc # <<>> /\ acc[Len(acc)].layer = key
             THEN ChunkBy(Tail(ls), [acc EXCEPT ![Len(acc)].names = Append(@, Head(ls))])
             ELSE ChunkBy(Tail(ls), Append(acc, [layer |-> key, names |-> <<Head(ls)>>]))

layers_by_name == ChunkBy(PcbLayer, <<>>)

\* a writer that never compacts
SerializeChunks_Never(chunks, list, arguments) ==
    [list |-> list, arguments |-> arguments]

RECURSIVE SerializeChunks(_, _, _)
\* the loop of 1993-2000 over the chunks left
SerializeChunks(chunks, list, arguments) ==
    IF chunks = <<>> THEN [list |-> list, arguments |-> arguments]
    ELSE LET names == Head(chunks).names
         IN  IF ~(\A i \in 1..Len(names) : Contains(list, names[i]))
             THEN SerializeChunks(Tail(chunks), list, arguments)
             ELSE SerializeChunks(Tail(chunks),
                      SelectSeq(list, LAMBDA l : ~Contains(names, l)),
                      Append(arguments,
                             SyntaxArgument("Identifier", <<"*", ".">> \o Head(chunks).layer,
                                            NoNumber, "None")))

\* <Vec<PcbLayer> as SyntaxItemSerializable>::serialize (1978-2011)
VecPcbLayer_serialize(self) ==
    LET r == SerializeChunks(layers_by_name, self, <<>>)
    IN  SyntaxItem(<<"l","a","y","e","r","s">>,
                   r.arguments \o
                   [i \in 1..Len(r.list) |->
                       SyntaxArgument("Identifier", to_string(r.list[i]), NoNumber, "None")],
                   <<>>)

\* a filter that looks at the part after the dot only
LayerMatches_NameOnly(argument, l) ==
    LET parts == SplitOn(argument, ".")
        this_parts == SplitOn(to_string(l), ".")
    IN  this_parts[2] = parts[2] \/ parts[2] = <<"*">>

\* the filter closure of deserialize (2024-2037)
LayerMatches(argument, l) ==
    LET parts == SplitOn(argument, ".")
        this_parts == SplitOn(to_string(l), ".")
        type_match == this_parts[1] = parts[1] \/ parts[1] = <<"*">>
        name_match == this_parts[2] = parts[2] \/ parts[2] = <<"*">>
    IN  \/ /\ name_match
           /\ Contains(parts[1], "&")
           /\ Contains(SplitOn(parts[1], "&"), this_parts[1])
        \/ type_match /\ name_match

\* <Vec<PcbLayer> as SyntaxItemSerializable>::deserialize (2013-2041).
\* layers[i] is what the i-th argument appends: the layer_map entries that
\* pass the filter, in the HashMap's iteration order, which is unspecified.
VecPcbLayer_deserialize(syntax) ==
    LET args == syntax.arguments
    IN  IF \E i \in 1..Len(args) : Len(SplitOn(get_string(args[i]), ".")) < 2
        THEN [panic |-> TRUE, layers |-> <<>>]
        ELSE [panic |-> FALSE,
              layers |-> [i \in 1..Len(args) |->
                            {l \in Range(PcbLayer) : LayerMatches(get_string(args[i]), l)}]]

MaxExtraLayers == 3

\* the chunks a list may hold whole: Cu, Adhes, User
WholeChunks == {1, 2, 6}

ExtraLayers == {"FCu", "In1Cu", "BCu", "FSilkS", "BSilkS", "DwgsUser", "User1", "FFab"}

\* the members of S in declaration order
InDeclarationOrder(S) == SelectSeq(PcbLayer, LAMBDA l : l \in S)

Reverse(s) == [i \in 1..Len(s) |-> s[Len(s) + 1 - i]]

\* the layers the footprint translator gives a pad: through the board with
\* two inner layers or with all of them, on the front, and the board's edge
PadLayerLists ==
    { <<"FMask", "BMask", "FCu", "In1Cu", "In2Cu", "BCu">>,
      <<"FMask", "BMask">> \o SubSeq(PcbLayer, 1, 32),
      <<"FCu", "FMask", "FPaste">>, <<"EdgeCuts">>, <<"EdgeCuts", "FFab", "BFab">> }

LayerLists ==
    LET sets == { UNION {Range(layers_by_name[c].names) : c \in cs} \cup ex :
                    cs \in SUBSET WholeChunks,
                    ex \in {e \in SUBSET ExtraLayers : Cardinality(e) <= MaxExtraLayers} }
        sorted == { InDeclarationOrder(S) : S \in sets }
    IN  sorted \cup { Reverse(l) : l \in sorted }
        \cup { Append(l, l[1]) : l \in {m \in sorted : m # <<>>} }
        \cup PadLayerLists

NoLayers == [panic |-> FALSE, layers |-> <<>>]

LayerIdle ==
    /\ layer_list = <<>>
    /\ layers_item = NoItem
    /\ layers_back = NoLayers
    /\ lay_pc = "idle"

LayerInit ==
    /\ layer_list \in LayerLists
    /\ layers_item = NoItem
    /\ layers_back = NoLayers
    /\ lay_pc = "input"

SerializeLayers ==
    /\ lay_pc = "input"
    /\ layers_item' = VecPcbLayer_serialize(layer_list)
    /\ lay_pc' = "serialized"
    /\ UNCHANGED <<layer_list, layers_back>>

DeserializeLayers ==
    /\ lay_pc = "serialized"
    /\ layers_back' = VecPcbLayer_deserialize(layers_item)
    /\ lay_pc' = "deserialized"
    /\ UNCHANGED <<layer_list, layers_item>>

\* C7: for every list L of layers, deserialize(serialize(L)) holds exactly
\* the layers of L.
C7_LayerSetRoundTrip ==
    lay_pc = "deserialized" =>
        /\ ~layers_back.panic
        /\ UNION Range(layers_back.layers) = Range(layer_list)

\* a list with every copper layer and some single layers, out of order
C7_Witness ==
    /\ lay_pc = "deserialized"
    /\ Len(layer_list) > 32
    /\ layer_list[1] = "FFab"
    /\ \E i \in 1..Len(layers_item.arguments) :
          layers_item.arguments[i].str = <<"*", ".", "C", "u">>
    /\ \E i \in 1..Len(layers_item.arguments) :
          layers_item.arguments[i].str = <<"F", ".", "S", "i", "l", "k", "S">>
    /\ UNION Range(layers_back.layers) = Range(layer_list)

----------------------------------------------------------------------------
(* The symbol translator: impl TryInto<Symbol> for EasyEDASymbol           *)
(* (easyeda/symbol.rs 73-360).  An element is [kind, id]; of the shapes    *)
(* RECT stands for all kinds that are pushed to the current symbol, and    *)
(* the line style of a shape and the NUMBER and NAME attributes of a pin   *)
(* are taken to be present.  A shape or pin is kept by its id.             *)

\* usize::from_str: an optional + and decimal digits (315)
ParseUsize(s) ==
    LET body == IF s # <<>> /\ Head(s) = "+" THEN Tail(s) ELSE s
    IN  IF body # <<>> /\ AllDigits(body)
        THEN [ok |-> TRUE, value |-> DigitsValue(body, 0)]
        ELSE [ok |-> FALSE, value |-> 0]

\* str::rfind: the last index of ch in s, or 0
rfind(s, ch) ==
    IF \E i \in 1..Len(s) : s[i] = ch
    THEN CHOOSE i \in 1..Len(s) : s[i] = ch /\ \A j \in (i + 1)..Len(s) : s[j] # ch
    ELSE 0

\* Symbol::default() (symbol_library.rs), the fields the translator fills
DefaultSymbol ==
    [symbol_id |-> <<>>, in_bom |-> "None", on_board |-> "None",
     rectangles |-> <<>>, pins |-> <<>>, units |-> <<>>]

\* symbol.rs 124-300: one turn of the element loop.  st.current_symbol_index
\* is 1-based, 0 standing for usize::MAX
ConvertElement(st, element) ==
    IF element.kind = "PART"
    THEN [st EXCEPT !.all_symbols =
                        Append(@, [DefaultSymbol EXCEPT !.symbol_id = element.id,
                                                        !.in_bom = "Some(true)",
                                                        !.on_board = "Some(true)"]),
                    !.current_symbol_index = Len(st.all_symbols) + 1]
    ELSE IF element.kind = "BEZIER"
    THEN [st EXCEPT !.result = "Err", !.error = "UnsupportedElement"]
    ELSE IF element.kind \in {"RECT", "PIN"}
    THEN IF st.current_symbol_index = 0
         THEN [st EXCEPT !.result = "panic"]
         ELSE IF element.kind = "RECT"
         THEN [st EXCEPT !.all_symbols[st.current_symbol_index].rectangles =
                             Append(@, element.id)]
         ELSE [st EXCEPT !.all_symbols[st.current_symbol_index].pins =
                             Append(@, element.id)]
    ELSE st                                     \* DOCTYPE, HEAD

RECURSIVE ConvertElements(_, _)
\* the loop of symbol.rs 109-301; an Err or a panic ends it
ConvertElements(st, els) ==
    IF els = <<>> \/ st.result # "Ok" THEN st
    ELSE ConvertElements(ConvertElement(st, Head(els)), Tail(els))

\* symbol.rs 313-317
name_parts(unit_symbol_names) ==
    [i \in 1..Len(unit_symbol_names) |->
        LET s == unit_symbol_names[i]
            index == rfind(s, ".")
        IN  IF index = 0 THEN [some |-> FALSE, base |-> <<>>, id |-> ParseUsize(<<>>)]
            ELSE [some |-> TRUE, base |-> SubSeq(s, 1, index - 1),
                  id |-> ParseUsize(SubSeq(s, index + 1, Len(s)))]]

\* a check that asks for increasing numbers only
sequence_okay_Increasing(parts) ==
    \A i \in 1..(Len(parts) - 1) : parts[i].id.value < parts[i + 1].id.value

\* symbol.rs 329-331
sequence_okay(parts) ==
    \A i \in 1..Len(parts) : parts[i].id.value = i

\* a unit name without the trailing _1
UnitSymbolId_NoStyle(root_id, unit_index) ==
    root_id \o <<"_">> \o ToDigits(unit_index)

\* symbol.rs 344: format!("{}_{}_1", root_symbol.symbol_id, unit_index)
UnitSymbolId(root_id, unit_index) ==
    root_id \o <<"_">> \o ToDigits(unit_index) \o <<"_", "1">>

RootSymbol == [DefaultSymbol EXCEPT !.in_bom = "Some(true)", !.on_board = "Some(true)"]

Failed(result, error) == [result |-> result, error |-> error, symbol |-> DefaultSymbol]

\* <EasyEDASymbol as TryInto<Symbol>>::try_into (symbol.rs 76-360)
EasyEDASymbol_try_into(els) ==
    LET is_complex_symbol == Cardinality({i \in 1..Len(els) : els[i].kind = "PART"}) > 1
        st == ConvertElements([all_symbols |-> <<>>, current_symbol_index |-> 0,
                               result |-> "Ok", error |-> "none"], els)
        all_symbols == st.all_symbols
        parts == name_parts([i \in 1..Len(all_symbols) |-> all_symbols[i].symbol_id])
    IN  IF st.result # "Ok" THEN Failed(st.result, st.error)
        ELSE IF is_complex_symbol
        THEN IF \E i \in 1..Len(parts) : ~parts[i].some \/ ~parts[i].id.ok
             THEN Failed("Err", "IncorrectUnitFormat")
             ELSE IF ~sequence_okay(parts)
             THEN Failed("Err", "IncorrectUnitNumIdentifier")
             ELSE IF ~(\A i \in 1..(Len(parts) - 1) : parts[i].base = parts[i + 1].base)
             THEN Failed("Err", "IncorrectUnitName")
             ELSE [result |-> "Ok", error |-> "none",
                   symbol |-> [RootSymbol EXCEPT
                       !.symbol_id = parts[1].base,
                       !.units = [i \in 1..Len(all_symbols) |->
                                    [all_symbols[i] EXCEPT
                                        !.symbol_id = UnitSymbolId(parts[1].base, i),
                                        !.in_bom = "None",
                                        !.on_board = "None"]]]]
        ELSE IF all_symbols = <<>> THEN Failed("panic", "none")
        ELSE [result |-> "Ok", error |-> "none",
              symbol |-> [all_symbols[Len(all_symbols)] EXCEPT
                              !.in_bom = "Some(true)", !.on_board = "Some(true)"]]

MaxParts == 3

PartIds ==
    { <<"U","1",".","1">>, <<"U","1",".","2">>, <<"U","1",".","3">>,
      <<"U","2",".","2">>, <<"U","1">>, <<"U","1",".","a">>,
      <<"U","1",".">>, <<"U","1",".","+","1">>, <<"U","1",".","0","2">>,
      <<"U",".","1",".","1">>, <<"U",".","1",".","2">> }

\* what follows the PART lines
Plans == {"bare", "pins", "mixed", "bezier", "orphan"}

\* the kinds of the elements after the j-th PART line
SectionKinds(plan, j) ==
    IF plan = "bare" THEN <<>>
    ELSE IF plan = "mixed"
    THEN (IF j % 2 = 1 THEN <<"RECT", "PIN">> ELSE <<"PIN", "PIN", "RECT">>)
    ELSE IF plan = "bezier" /\ j = 2 THEN <<"RECT", "BEZIER">>
    ELSE <<"PIN">>

RECURSIVE SymbolKinds(_, _, _)
\* the lines of a symbol from the j-th PART on
SymbolKinds(ids, plan, j) ==
    IF j > Len(ids) THEN <<>>
    ELSE <<[kind |-> "PART", id |-> ids[j]]>>
         \o [i \in 1..Len(SectionKinds(plan, j)) |->
                [kind |-> SectionKinds(plan, j)[i], id |-> <<>>]]
         \o SymbolKinds(ids, plan, j + 1)

\* EasyEDASymbol.elements: every element but a PART has its line number as id
SymbolElements(ids, plan) ==
    LET lines == <<[kind |-> "DOCTYPE", id |-> <<>>], [kind |-> "HEAD", id |-> <<>>]>>
                 \o (IF plan = "orphan" THEN <<[kind |-> "RECT", id |-> <<>>]>> ELSE <<>>)
                 \o SymbolKinds(ids, plan, 1)
    IN  [i \in 1..Len(lines) |->
            IF lines[i].kind = "PART" THEN lines[i]
            ELSE [lines[i] EXCEPT !.id = <<"e">> \o ToDigits(i)]]

NoResult == Failed("none", "none")

SymbolIdle ==
    /\ elements = <<>>
    /\ converted = NoResult
    /\ sym_pc = "idle"

SymbolInit ==
    /\ elements \in { SymbolElements(ids, plan) :
                        ids \in SeqsUpTo(PartIds, MaxParts), plan \in Plans }
    /\ converted = NoResult
    /\ sym_pc = "input"

ConvertSymbol ==
    /\ sym_pc = "input"
    /\ converted' = EasyEDASymbol_try_into(elements)
    /\ sym_pc' = "converted"
    /\ UNCHANGED elements

(* Claims about the symbol translator *)

\* the ids of the PART sections, in order of appearance
SectionIds(els) ==
    LET ps == SelectSeq(els, LAMBDA e : e.kind = "PART")
    IN  [i \in 1..Len(ps) |-> ps[i].id]

\* s writes a natural number in decimal
Numeral(s) ==
    \/ s # <<>> /\ AllDigits(s)
    \/ Len(s) > 1 /\ Head(s) = "+" /\ AllDigits(Tail(s))

NumeralValue(s) == DigitsValue(IF Head(s) = "+" THEN Tail(s) ELSE s, 0)

\* every id is base.N and the N are 1, 2, ..., k in order
UnitsOf(ids, base) ==
    \A j \in 1..Len(ids) :
        LET n == SubSeq(ids[j], Len(base) + 2, Len(ids[j]))
        IN  /\ Len(ids[j]) > Len(base) + 1
            /\ SubSeq(ids[j], 1, Len(base)) = base
            /\ ids[j][Len(base) + 1] = "."
            /\ Numeral(n)
            /\ NumeralValue(n) = j

\* the BASE of well-formed section ids
BaseOf(ids) ==
    CHOOSE base \in {SubSeq(ids[1], 1, p) : p \in 0..Len(ids[1])} : UnitsOf(ids, base)

WellNumbered(ids) ==
    \E base \in {SubSeq(ids[1], 1, p) : p \in 0..Len(ids[1])} : UnitsOf(ids, base)

\* the element loop meets nothing it rejects: no BEZIER, no shape or pin
\* before the first PART
ElementsTranslatable(els) ==
    /\ \A i \in 1..Len(els) : els[i].kind # "BEZIER"
    /\ \A i \in 1..Len(els) :
          els[i].kind \in {"RECT", "PIN"} => \E j \in 1..(i - 1) : els[j].kind = "PART"

UnitLayoutErrors == {"IncorrectUnitFormat", "IncorrectUnitNumIdentifier", "IncorrectUnitName"}

\* C8: with more than one PART section the conversion returns no symbol
\* unless the section ids are BASE.1 ... BASE.k in order; once the elements
\* themselves are translated, it fails with one of the three unit-layout
\* errors exactly when they are not; U1.1 followed by U1.3 is rejected.
C8_UnitLayoutChecked ==
    (sym_pc = "converted" /\ Len(SectionIds(elements)) > 1) =>
        LET ids == SectionIds(elements)
        IN  /\ ~WellNumbered(ids) => converted.result # "Ok"
            /\ ElementsTranslatable(elements) =>
                  IF WellNumbered(ids)
                  THEN converted.result = "Ok"
                  ELSE converted.result = "Err" /\ converted.error \in UnitLayoutErrors
            /\ ids = << <<"U","1",".","1">>, <<"U","1",".","3">> >> =>
                  converted.result # "Ok"

\* the sections U1.1 and U1.3, one pin each, are refused for their numbers
C8_Witness ==
    /\ sym_pc = "converted"
    /\ SectionIds(elements) = << <<"U","1",".","1">>, <<"U","1",".","3">> >>
    /\ ElementsTranslatable(elements)
    /\ \E i \in 1..Len(elements) : elements[i].kind = "PIN"
    /\ converted.result = "Err"
    /\ converted.error = "IncorrectUnitNumIdentifier"

\* the ids of the elements of the given kind between the j-th PART line and
\* the next one
SectionContent(els, j, kind) ==
    LET starts == SelectSeq([i \in 1..Len(els) |-> i], LAMBDA i : els[i].kind = "PART")
        from == starts[j]
        to == IF j < Len(starts) THEN starts[j + 1] ELSE Len(els) + 1
        inside == SelectSeq([i \in 1..Len(els) |-> i],
                            LAMBDA i : i > from /\ i < to /\ els[i].kind = kind)
    IN  [i \in 1..Len(inside) |-> els[inside[i]].id]

\* C9: for k > 1 sections BASE.1 ... BASE.k the symbol returned has id BASE
\* and nothing drawn of its own, and k units BASE_1_1 ... BASE_k_1 in
\* section order, each with the shapes and pins of its section; in_bom and
\* on_board are true on the outer symbol and unset on the units.
C9_UnitsOfSections ==
    (/\ sym_pc = "converted"
     /\ Len(SectionIds(elements)) > 1
     /\ WellNumbered(SectionIds(elements))
     /\ converted.result = "Ok") =>
        LET ids == SectionIds(elements)
            base == BaseOf(ids)
            symbol == converted.symbol
        IN  /\ symbol.symbol_id = base
            /\ symbol.rectangles = <<>> /\ symbol.pins = <<>>
            /\ symbol.in_bom = "Some(true)" /\ symbol.on_board = "Some(true)"
            /\ Len(symbol.units) = Len(ids)
            /\ \A j \in 1..Len(ids) :
                  /\ symbol.units[j].symbol_id =
                         base \o <<"_">> \o ToDigits(j) \o <<"_", "1">>
                  /\ symbol.units[j].rectangles = SectionContent(elements, j, "RECT")
                  /\ symbol.units[j].pins = SectionContent(elements, j, "PIN")
                  /\ symbol.units[j].units = <<>>
                  /\ symbol.units[j].in_bom = "None"
                  /\ symbol.units[j].on_board = "None"

\* three sections U1.1, U1.2, U1.3 with different shapes and pins
C9_Witness ==
    /\ sym_pc = "converted"
    /\ SectionIds(elements) =
          << <<"U","1",".","1">>, <<"U","1",".","2">>, <<"U","1",".","3">> >>
    /\ converted.result = "Ok"
    /\ Len(converted.symbol.units) = 3
    /\ Len(converted.symbol.units[2].pins) = 2
    /\ Len(converted.symbol.units[3].rectangles) = 1
    /\ converted.symbol.units[3].symbol_id = <<"U","1","_","3","_","1">>

----------------------------------------------------------------------------
(* The path decoder: EasyEDAFootprint::parse_path_expression               *)
(* (easyeda/footprint.rs 815-898).  A JSON value is a string or a number;  *)
(* a number keeps the representation serde_json gave it (PosInt, NegInt    *)
(* or Float).  The integers met are coordinates, far inside the i64 range. *)
(* Lengths are counted in 1/10000 mm.                                      *)

\* footprint.rs 205: 0.0254, in 1/10000
scale_factor == 254

JsonString(s) == [t |-> "String", s |-> s, n |-> 0, repr |-> "none"]
JsonNumber(n, repr) == [t |-> "Number", s |-> "", n |-> n, repr |-> repr]

\* serde_json::Value::is_f64 and is_i64
is_f64(v) == v.t = "Number" /\ v.repr = "Float"
is_i64(v) == v.t = "Number" /\ v.repr \in {"PosInt", "NegInt"}
is_string(v) == v.t = "String"
is_number(v) == v.t = "Number"

\* Vec::insert(i, v), i counted from 1
InsertAt(p, i, v) == SubSeq(p, 1, i - 1) \o <<v>> \o SubSeq(p, i, Len(p))

\* a test that asks for one coordinate only
NeedsImplicitL_AfterAny(line_pair_counter) == line_pair_counter > 0

\* footprint.rs 833
NeedsImplicitL(line_pair_counter) ==
    line_pair_counter > 0 /\ line_pair_counter % 2 = 0

RECURSIVE PrefixLineTo(_, _, _, _, _)
\* footprint.rs 825-841: the loop from index i on (counted from 1);
\* inserted collects the indexes where an L was inserted
PrefixLineTo(p, i, line_pair_counter, is_line_segment, inserted) ==
    IF i > Len(p) THEN [path |-> p, inserted |-> inserted]
    ELSE IF is_string(p[i])
    THEN PrefixLineTo(p, i + 1,
                      IF p[i].s = "L" THEN 0 ELSE line_pair_counter,
                      p[i].s = "L", inserted)
    ELSE IF is_line_segment
    THEN IF NeedsImplicitL(line_pair_counter)
         THEN PrefixLineTo(InsertAt(p, i, JsonString("L")), i + 1, 0,
                           is_line_segment, inserted \cup {i})
         ELSE PrefixLineTo(p, i + 1, line_pair_counter + 1, is_line_segment, inserted)
    ELSE PrefixLineTo(p, i + 1, line_pair_counter, is_line_segment, inserted)

\* footprint.rs 817-841: the two passes that complete the commands
PreparePath(p) ==
    LET prepended == is_f64(p[1]) \/ is_i64(p[1])
        withM == IF prepended THEN <<JsonString("M")>> \o p ELSE p
        r == PrefixLineTo(withM, 4, 0, FALSE, {})
    IN  [path |-> r.path, prepended |-> prepended, inserted |-> r.inserted]

\* the parameters a command reads: "s" scaled, "n" negated and scaled,
\* "r" raw (footprint.rs 850-892)
CommandParams ==
    [M |-> <<"s", "n">>, L |-> <<"s", "n">>, ARC |-> <<"r", "s", "s">>,
     CARC |-> <<"r", "s", "s">>, CIRCLE |-> <<"s", "n", "s">>,
     R |-> <<"s", "n", "s", "s", "r">>]

PathCommandName ==
    [M |-> "MoveTo", L |-> "LineTo", ARC |-> "ArcTo", CARC |-> "CenterArcTo",
     CIRCLE |-> "Circle", R |-> "Rectangle"]

\* `as f32 * scale_factor`, negated or not
ReadParam(v, how) ==
    IF how = "s" THEN v.n * scale_factor
    ELSE IF how = "n" THEN (0 - v.n) * scale_factor
    ELSE v.n

RECURSIVE DecodePath(_, _, _)
\* footprint.rs 846-895: the commands from index i on
DecodePath(p, i, acc) ==
    IF i > Len(p) THEN [panic |-> FALSE, commands |-> acc]
    ELSE IF ~is_string(p[i]) \/ p[i].s \notin DOMAIN CommandParams
    THEN [panic |-> TRUE, commands |-> acc]        \* the assert, or line 893
    ELSE
    LET command == p[i].s
        hows == CommandParams[command]
        n == Len(hows)
        \* R reads a corner radius if any value is left
        extra == IF command = "R" /\ i + n + 1 <= Len(p) THEN 1 ELSE 0
        have == \A k \in 1..(n + extra) : i + k <= Len(p) /\ is_number(p[i + k])
    IN  IF ~have THEN [panic |-> TRUE, commands |-> acc]
        ELSE DecodePath(p, i + n + extra + 1,
                 Append(acc,
                    [name |-> PathCommandName[command],
                     params |-> [k \in 1..n |-> ReadParam(p[i + k], hows[k])]
                                \o (IF command # "R" THEN <<>>
                                    ELSE IF extra = 1
                                    THEN <<ReadParam(p[i + n + 1], "s")>>
                                    ELSE <<0>>)]))

MaxSegments == 2

MaxPairs == 3

\* what a path starts with: a move, a bare coordinate pair, or nothing
PathHeads == { <<"M", "#", "#">>, <<"#", "#">>, <<>> }

\* a command and its numbers ("#")
PathSegments ==
    { <<"L">> \o [k \in 1..(2 * n) |-> "#"] : n \in 1..MaxPairs }
    \cup { <<"L", "#", "#", "#">>, <<"M", "#", "#">>, <<"ARC", "#", "#", "#">>,
           <<"CARC", "#", "#", "#">>, <<"CIRCLE", "#", "#", "#">>,
           <<"R", "#", "#", "#", "#", "#">>, <<"R", "#", "#", "#", "#", "#", "#">>,
           <<"Z">> }

RECURSIVE Flatten(_)
Flatten(ss) == IF ss = <<>> THEN <<>> ELSE Head(ss) \o Flatten(Tail(ss))

\* the JSON array of a shape: the k-th value, when a number, is k or -k in
\* one of the three representations
PathOf(shape) ==
    [k \in 1..Len(shape) |->
        IF shape[k] # "#" THEN JsonString(shape[k])
        ELSE IF k % 3 = 0 THEN JsonNumber(k, "Float")
        ELSE IF k % 3 = 1 THEN JsonNumber(k, "PosInt")
        ELSE JsonNumber(0 - k, "NegInt")]

\* populate_footprint_shapes returns early on an empty array (629-631)
Paths ==
    { PathOf(h \o Flatten(segs)) :
        h \in PathHeads, segs \in SeqsUpTo(PathSegments, MaxSegments) } \ {<<>>}

NoPrepared == [path |-> <<>>, prepended |-> FALSE, inserted |-> {}]
NoCommands == [panic |-> FALSE, commands |-> <<>>]

PathIdle ==
    /\ path = <<>>
    /\ prepared = NoPrepared
    /\ commands = NoCommands
    /\ path_pc = "idle"

PathInit ==
    /\ path \in Paths
    /\ prepared = NoPrepared
    /\ commands = NoCommands
    /\ path_pc = "input"

\* parse_path_expression (footprint.rs 815-898)
parse_path_expression ==
    /\ path_pc = "input"
    /\ prepared' = PreparePath(path)
    /\ commands' = DecodePath(prepared'.path, 1, <<>>)
    /\ path_pc' = "decoded"
    /\ UNCHANGED path

(* Claims about the path decoder *)

\* s without the elements at the indexes in I
Without(s, I) ==
    LET keep == SelectSeq([i \in 1..Len(s) |-> i], LAMBDA i : i \notin I)
    IN  [k \in 1..Len(keep) |-> s[keep[k]]]

IsNumber(v) == v.t = "Number"

\* every L of p is followed by whole coordinate pairs
WholePairs(p) ==
    \A i \in 1..Len(p) :
        (p[i].t = "String" /\ p[i].s = "L") =>
            \E m \in 0..Len(p) :
                /\ i + 2 * m <= Len(p)
                /\ \A k \in (i + 1)..(i + 2 * m) : IsNumber(p[k])
                /\ (i + 2 * m < Len(p) => ~IsNumber(p[i + 2 * m + 1]))

\* the path M x y L p1 ... pn of n >= 1 coordinate pairs
MoveThenLines(p) ==
    /\ Len(p) >= 6 /\ Len(p) % 2 = 0
    /\ p[1] = JsonString("M") /\ IsNumber(p[2]) /\ IsNumber(p[3])
    /\ p[4] = JsonString("L")
    /\ \A k \in 5..Len(p) : IsNumber(p[k])

Kw ==
    [
      fp_circle |-> <<"f","p","_","c","i","r","c","l","e">>,
      center |-> <<"c","e","n","t","e","r">>,
      end |-> <<"e","n","d">>,
      layer |-> <<"l","a","y","e","r">>,
      layers |-> <<"l","a","y","e","r","s">>,
      width |-> <<"w","i","d","t","h">>,
      uuid |-> <<"u","u","i","d">>,
      stroke |-> <<"s","t","r","o","k","e">>,
      fill |-> <<"f","i","l","l">>,
      locked |-> <<"l","o","c","k","e","d">>,
      type |-> <<"t","y","p","e">>,
      color |-> <<"c","o","l","o","r">>,
      yes |-> <<"y","e","s">>,
      no |-> <<"n","o">>,
      solid |-> <<"s","o","l","i","d">>,
      none |-> <<"n","o","n","e">>,
      filled |-> <<"f","i","l","l","e","d">>,
      mode |-> <<"m","o","d","e">>,
      hatched |-> <<"h","a","t","c","h","e","d">>,
      thermal_gap |-> <<"t","h","e","r","m","a","l","_","g","a","p">>,
      thermal_bridge_width |-> <<"t","h","e","r","m","a","l","_","b","r","i","d","g","e","_","w","i","d","t","h">>,
      smoothing |-> <<"s","m","o","o","t","h","i","n","g">>,
      chamfer |-> <<"c","h","a","m","f","e","r">>,
      fillet |-> <<"f","i","l","l","e","t">>,
      radius |-> <<"r","a","d","i","u","s">>,
      island_removal_mode |-> <<"i","s","l","a","n","d","_","r","e","m","o","v","a","l","_","m","o","d","e">>,
      island_area_min |-> <<"i","s","l","a","n","d","_","a","r","e","a","_","m","i","n">>,
      hatch_thickness |-> <<"h","a","t","c","h","_","t","h","i","c","k","n","e","s","s">>,
      hatch_gap |-> <<"h","a","t","c","h","_","g","a","p">>,
      hatch_orientation |-> <<"h","a","t","c","h","_","o","r","i","e","n","t","a","t","i","o","n">>,
      hatch_smoothing_level |-> <<"h","a","t","c","h","_","s","m","o","o","t","h","i","n","g","_","l","e","v","e","l">>,
      hatch_smoothing_value |-> <<"h","a","t","c","h","_","s","m","o","o","t","h","i","n","g","_","v","a","l","u","e">>,
      hatch_border_algorithm |-> <<"h","a","t","c","h","_","b","o","r","d","e","r","_","a","l","g","o","r","i","t","h","m">>,
      hatch_min_hole_area |-> <<"h","a","t","c","h","_","m","i","n","_","h","o","l","e","_","a","r","e","a">>,
      dash |-> <<"d","a","s","h">>,
      dash_dot |-> <<"d","a","s","h","_","d","o","t">>,
      dash_dot_dot |-> <<"d","a","s","h","_","d","o","t","_","d","o","t">>,
      dot |-> <<"d","o","t">>,
      default |-> <<"d","e","f","a","u","l","t">>,
      teardrop |-> <<"t","e","a","r","d","r","o","p">>,
      thermal_bridge_angle |-> <<"t","h","e","r","m","a","l","_","b","r","i","d","g","e","_","a","n","g","l","e">> ]

\* the byte of a character, for the ordering of String
CharCode ==
    [ch \in Letters \cup Digits \cup {"_", "-", ".", "*", "%"} |->
        IF ch \in Digits THEN 48 + DigitVal[ch]
        ELSE IF ch = "%" THEN 37 ELSE IF ch = "*" THEN 42
        ELSE IF ch = "-" THEN 45 ELSE IF ch = "." THEN 46
        ELSE IF ch = "A" THEN 65 ELSE IF ch = "E" THEN 69
        ELSE IF ch = "N" THEN 78 ELSE IF ch = "_" THEN 95
        ELSE 96 + IndexOf(<<"a", "b", "c", "d", "e", "f", "g", "h", "i", "j", "k",
                            "l", "m", "n", "o", "p", "q", "r", "s", "t", "u", "v",
                            "w", "x", "y", "z">>, {ch})]

\* a < b for String: byte-wise lexicographic
StringLess(a, b) ==
    \/ Len(a) < Len(b) /\ SubSeq(b, 1, Len(a)) = a
    \/ \E i \in 1..Len(a) :
          /\ i <= Len(b)
          /\ SubSeq(a, 1, i - 1) = SubSeq(b, 1, i - 1)
          /\ CharCode[a[i]] < CharCode[b[i]]

RECURSIVE sorted_by_name(_)
\* sorted_by_key(|e| e.name.clone()) (syntax.rs 82, 84): a stable sort
sorted_by_name(items) ==
    IF items = <<>> THEN <<>>
    ELSE LET last == items[Len(items)]
             r == sorted_by_name(SubSeq(items, 1, Len(items) - 1))
             k == Cardinality({i \in 1..Len(r) : ~StringLess(last.name, r[i].name)})
         IN  SubSeq(r, 1, k) \o <<last>> \o SubSeq(r, k + 1, Len(r))

RECURSIVE deep_equals(_, _)
\* SyntaxItem::deep_equals (syntax.rs 73-121)
deep_equals(self, other) ==
    IF self.name # other.name THEN FALSE
    ELSE IF Len(self.arguments) # Len(other.arguments) /\ self.name # Kw.layers THEN FALSE
    ELSE LET this_children == sorted_by_name(self.children)
             other_children ==
                 SelectSeq(sorted_by_name(other.children),
                           LAMBDA e : e.name # Kw.teardrop /\ e.name # Kw.thermal_bridge_angle)
         IN  IF Len(this_children) # Len(other_children) THEN FALSE
             ELSE /\ \A i \in 1..Len(this_children) :
                        deep_equals(this_children[i], other_children[i])
                  /\ self.name # Kw.layers =>
                        \A i \in 1..Len(self.arguments) :
                           LET this == get_string(self.arguments[i])
                               that == get_string(other.arguments[i])
                           IN  \/ this = that
                               \/ /\ self.name = Kw.fill
                                  /\ \/ this = Kw.yes /\ that = Kw.solid
                                     \/ this = Kw.solid /\ that = Kw.yes
                                     \/ this = Kw.no /\ that = Kw.none
                                     \/ this = Kw.none /\ that = Kw.no

\* SyntaxItem::get_named_child (syntax.rs 65-67): the first child of the name
get_named_child(syntax, name) ==
    LET found == SelectSeq(syntax.children, LAMBDA c : c.name = name)
    IN  IF found = <<>> THEN [some |-> FALSE, item |-> NoItem]
        ELSE [some |-> TRUE, item |-> Head(found)]

\* the child a `for child in &syntax.children` loop assigns from last
last_named_child(syntax, name) ==
    LET found == SelectSeq(syntax.children, LAMBDA c : c.name = name)
    IN  IF found = <<>> THEN [some |-> FALSE, item |-> NoItem]
        ELSE [some |-> TRUE, item |-> found[Len(found)]]

\* SyntaxItem::from_single_argument (syntax.rs 41-47)
from_single_argument(name, argument) == SyntaxItem(name, <<argument>>, <<>>)

\* SyntaxArgument::Number(v, PositionPreference::None) and ::Identifier, ::QuotedString
NumberArgument(v) == SyntaxArgument("Number", <<>>, v, "None")
TextArgument(kind, s) == SyntaxArgument(kind, s, NoNumber, "None")

\* Option<T>: Some(v), or None with a value of T's type that is not read
Opt(some, v) == [some |-> some, v |-> v]

\* arguments.get(i).unwrap().get_number() (syntax.rs 140-146)
get_number(arguments, i) ==
    IF i <= Len(arguments) /\ arguments[i].kind = "Number"
    THEN [panic |-> FALSE, v |-> arguments[i].num]
    ELSE [panic |-> TRUE, v |-> NoNumber]

\* an enum's identifiers: the match arms that write and read its variants
VariantOf(table, text) ==
    LET hit == SelectSeq(table, LAMBDA r : r.t = text)
    IN  IF hit = <<>> THEN [panic |-> TRUE, v |-> ""] ELSE [panic |-> FALSE, v |-> Head(hit).v]

TextOf(table, variant) == Head(SelectSeq(table, LAMBDA r : r.v = variant)).t

\* Scalar2D (footprint_library.rs 282-286, 961-980)
Scalar2D_default == [identifier_name |-> <<>>, x |-> Normalize(FALSE, 0, 0), y |-> Normalize(FALSE, 0, 0)]

Scalar2D_serialize(self) ==
    SyntaxItem(self.identifier_name, <<NumberArgument(self.x), NumberArgument(self.y)>>, <<>>)

Scalar2D_deserialize(syntax) ==
    LET x == get_number(syntax.arguments, 1)
        y == get_number(syntax.arguments, 2)
    IN  [panic |-> x.panic \/ y.panic,
         v |-> [identifier_name |-> syntax.name, x |-> x.v, y |-> y.v]]

\* `f32 as u8`: towards zero, saturating, NaN to 0
as_u8(v) ==
    LET shift == IF v.e >= 0 THEN v.e ELSE 0 - v.e
        pow == DigitsValue(<<"1">> \o Zeros(shift), 0)
        t == IF v.e >= 0 THEN v.m * pow ELSE v.m \div pow
    IN  IF v.sp = "nan" \/ v.neg THEN 0
        ELSE IF v.sp = "inf" \/ t > 255 THEN 255
        ELSE t

\* Color (symbol_library.rs 97-102, 707-729)
Color_serialize(self) ==
    SyntaxItem(Kw.color,
               <<NumberArgument(Normalize(FALSE, self.r, 0)),
                 NumberArgument(Normalize(FALSE, self.g, 0)),
                 NumberArgument(Normalize(FALSE, self.b, 0)),
                 NumberArgument(Normalize(FALSE, self.a, 0))>>,
               <<>>)

Color_deserialize(syntax) ==
    LET n == [i \in 1..4 |-> get_number(syntax.arguments, i)]
    IN  [panic |-> \E i \in 1..4 : n[i].panic,
         v |-> [r |-> as_u8(n[1].v), g |-> as_u8(n[2].v),
                b |-> as_u8(n[3].v), a |-> as_u8(n[4].v)]]

\* StrokeType and its identifiers (symbol_library.rs 143-150, common.rs 72-79, 89-96)
StrokeType ==
    << [t |-> Kw.dash, v |-> "Dash"], [t |-> Kw.dash_dot, v |-> "DashDot"],
       [t |-> Kw.dash_dot_dot, v |-> "DashDotDot"], [t |-> Kw.dot, v |-> "Dot"],
       [t |-> Kw.default, v |-> "Default"], [t |-> Kw.solid, v |-> "Solid"] >>

\* StrokeDefinition (common.rs 5-9, 65-101)
StrokeDefinition_serialize(self) ==
    SyntaxItem(Kw.stroke, <<>>,
               <<from_single_argument(Kw.width, NumberArgument(self.width))>>
               \o (IF self.dash.some
                   THEN <<from_single_argument(Kw.type,
                              TextArgument("Identifier", TextOf(StrokeType, self.dash.v)))>>
                   ELSE <<>>)
               \o (IF self.color.some THEN <<Color_serialize(self.color.v)>> ELSE <<>>))

StrokeDefinition_deserialize(syntax) ==
    LET w == get_named_child(syntax, Kw.width)
        width == get_number(w.item.arguments, 1)
        t == get_named_child(syntax, Kw.type)
        dash == IF t.some /\ t.item.arguments # <<>>
                THEN VariantOf(StrokeType, get_string(Head(t.item.arguments)))
                ELSE [panic |-> t.some, v |-> ""]
        c == get_named_child(syntax, Kw.color)
        color == Color_deserialize(c.item)
    IN  [panic |-> ~w.some \/ width.panic \/ dash.panic \/ (c.some /\ color.panic),
         v |-> [width |-> width.v,
                dash |-> Opt(t.some /\ ~dash.panic, dash.v),
                color |-> Opt(c.some, color.v)]]

\* PcbLayer::from, PcbLayer::parse (footprint_library.rs 451-514, 579-582):
\* parse matches the names to_string writes, and panics on any other
PcbLayer_from(node) ==
    LET str == get_string(Head(node.arguments))
        hit == SelectSeq(PcbLayer, LAMBDA l : to_string(l) = str)
    IN  IF node.arguments = <<>> \/ hit = <<>>
        THEN [panic |-> TRUE, v |-> "FCu"]
        ELSE [panic |-> FALSE, v |-> Head(hit)]

\* FootprintCircle::serialize (footprint_library.rs 1101-1129)
FootprintCircle_serialize(self) ==
    SyntaxItem(Kw.fp_circle, <<>>,
               << Scalar2D_serialize(self.center),
                  Scalar2D_serialize(self.end),
                  from_single_argument(Kw.layer,
                      TextArgument("Identifier", to_string(self.layer))) >>
               \o (IF self.width.some
                   THEN <<from_single_argument(Kw.width, NumberArgument(self.width.v))>>
                   ELSE <<>>)
               \o (IF self.uuid.some
                   THEN <<from_single_argument(Kw.uuid,
                              TextArgument("QuotedString", self.uuid.v))>>
                   ELSE <<>>)
               \o (IF self.stroke.some THEN <<StrokeDefinition_serialize(self.stroke.v)>>
                   ELSE <<>>)
               \o (IF self.fill.some
                   THEN <<from_single_argument(Kw.fill,
                              TextArgument("Identifier",
                                           IF self.fill.v THEN Kw.yes ELSE Kw.no))>>
                   ELSE <<>>))

\* FootprintCircle::deserialize (footprint_library.rs 1131-1158).  The loop
\* assigns each field from every child of its name in turn, so the last one
\* stays; it panics as soon as one child is not read.
FootprintCircle_deserialize(syntax) ==
    LET first_uuid == get_named_child(syntax, Kw.uuid)
        child_panics(child) ==
            IF child.name = Kw.layer THEN PcbLayer_from(child).panic
            ELSE IF child.name \in {Kw.center, Kw.end} THEN Scalar2D_deserialize(child).panic
            ELSE IF child.name = Kw.width THEN get_number(child.arguments, 1).panic
            ELSE IF child.name = Kw.stroke THEN StrokeDefinition_deserialize(child).panic
            ELSE child.name \notin {Kw.fill, Kw.locked, Kw.uuid}
        layer == last_named_child(syntax, Kw.layer)
        center == last_named_child(syntax, Kw.center)
        end == last_named_child(syntax, Kw.end)
        width == last_named_child(syntax, Kw.width)
        fill == last_named_child(syntax, Kw.fill)
        stroke == last_named_child(syntax, Kw.stroke)
        uuid == last_named_child(syntax, Kw.uuid)
    IN  IF \/ first_uuid.some /\ first_uuid.item.arguments = <<>>
           \/ \E i \in 1..Len(syntax.children) : child_panics(syntax.children[i])
        THEN [panic |-> TRUE, v |-> <<>>]
        ELSE [panic |-> FALSE,
              v |-> [type |-> "FootprintCircle",
                     layer |-> IF layer.some THEN PcbLayer_from(layer.item).v ELSE "FCu",
                     center |-> IF center.some THEN Scalar2D_deserialize(center.item).v
                                ELSE Scalar2D_default,
                     end |-> IF end.some THEN Scalar2D_deserialize(end.item).v
                             ELSE Scalar2D_default,
                     width |-> IF width.some THEN Opt(TRUE, get_number(width.item.arguments, 1).v)
                               ELSE Opt(FALSE, NoNumber),
                     fill |-> IF fill.some /\ fill.item.arguments # <<>>
                              THEN Opt(TRUE, get_string(Head(fill.item.arguments))
                                                \in {Kw.yes, Kw.filled})
                              ELSE Opt(FALSE, FALSE),
                     stroke |-> Opt(stroke.some, StrokeDefinition_deserialize(stroke.item).v),
                     uuid |-> IF uuid.some /\ uuid.item.arguments # <<>>
                              THEN Opt(TRUE, get_string(Head(uuid.item.arguments)))
                              ELSE Opt(FALSE, <<>>),
                     locked |-> get_named_child(syntax, Kw.locked).some]]

\* the identifiers of the enums of a zone fill (footprint_library.rs 370-388,
\* 357-368; written at 1713-1771, read at 1811-1845)
ZoneFillEnums ==
    [ mode |-> << [t |-> Kw.hatched, v |-> "Hatched"] >>,
      smoothing |-> << [t |-> Kw.chamfer, v |-> "Chamfer"], [t |-> Kw.fillet, v |-> "Fillet"] >>,
      island_removal_mode |->
          << [t |-> <<"0">>, v |-> "AlwaysRemove"], [t |-> <<"1">>, v |-> "NeverRemove"],
             [t |-> <<"2">>, v |-> "MinimumArea"] >>,
      hatch_smoothing_level |->
          << [t |-> <<"0">>, v |-> "NoSmoothing"], [t |-> <<"1">>, v |-> "Fillet"],
             [t |-> <<"2">>, v |-> "ArcMinimum"], [t |-> <<"3">>, v |-> "ArcMaximum"] >>,
      hatch_border_algorithm |->
          << [t |-> <<"0">>, v |-> "ZoneMinimumThickness"],
             [t |-> <<"1">>, v |-> "HatchThickness"] >> ]

\* FootprintZoneFillSettings::serialize (footprint_library.rs 1709-1783)
FootprintZoneFillSettings_serialize(self) ==
    LET number(name, v) == <<from_single_argument(name, NumberArgument(v))>>
        opt_number(name, o) == IF o.some THEN number(name, o.v) ELSE <<>>
        opt_enum(name, table, o) ==
            IF o.some
            THEN <<from_single_argument(name, TextArgument("Identifier", TextOf(table, o.v)))>>
            ELSE <<>>
    IN  SyntaxItem(Kw.fill,
            IF self.fill.some
            THEN <<TextArgument("Identifier", IF self.fill.v THEN Kw.yes ELSE Kw.no)>>
            ELSE <<>>,
            opt_enum(Kw.mode, ZoneFillEnums.mode, Opt(self.mode = "Hatched", self.mode))
            \o number(Kw.thermal_gap, self.thermal_gap)
            \o number(Kw.thermal_bridge_width, self.thermal_bridge_width)
            \o opt_enum(Kw.smoothing, ZoneFillEnums.smoothing, self.smoothing)
            \o opt_number(Kw.radius, self.radius)
            \o opt_enum(Kw.island_removal_mode, ZoneFillEnums.island_removal_mode,
                        self.island_removal_mode)
            \o opt_number(Kw.island_area_min, self.island_area_min)
            \o opt_number(Kw.hatch_thickness, self.hatch_thickness)
            \o opt_number(Kw.hatch_gap, self.hatch_gap)
            \o opt_number(Kw.hatch_orientation, self.hatch_orientation)
            \o opt_number(Kw.hatch_smoothing_value, self.hatch_smoothing_value)
            \o opt_enum(Kw.island_removal_mode, ZoneFillEnums.hatch_smoothing_level,
                        self.hatch_smoothing_level)
            \o opt_enum(Kw.hatch_border_algorithm, ZoneFillEnums.hatch_border_algorithm,
                        self.hatch_border_algorithm)
            \o opt_number(Kw.hatch_min_hole_area, self.hatch_min_hole_area))

\* FootprintZoneFillSettings::deserialize (footprint_library.rs 1785-1852).
\* Every child is read through its first argument; the last child of a name
\* is the one whose value stays.
FootprintZoneFillSettings_deserialize(syntax) ==
    LET numbers == {Kw.thermal_gap, Kw.thermal_bridge_width, Kw.radius, Kw.island_area_min,
                    Kw.hatch_thickness, Kw.hatch_gap, Kw.hatch_orientation,
                    Kw.hatch_smoothing_value, Kw.hatch_min_hole_area}
        table(name) ==
            IF name = Kw.mode THEN ZoneFillEnums.mode
            ELSE IF name = Kw.smoothing THEN ZoneFillEnums.smoothing
            ELSE IF name = Kw.island_removal_mode THEN ZoneFillEnums.island_removal_mode
            ELSE IF name = Kw.hatch_smoothing_level THEN ZoneFillEnums.hatch_smoothing_level
            ELSE IF name = Kw.hatch_border_algorithm THEN ZoneFillEnums.hatch_border_algorithm
            ELSE <<>>
        child_panics(child) ==
            \/ child.arguments = <<>>
            \/ IF child.name \in numbers THEN get_number(child.arguments, 1).panic
               ELSE VariantOf(table(child.name), get_string(Head(child.arguments))).panic
        opt_number(name) ==
            LET c == last_named_child(syntax, name)
            IN  IF c.some THEN Opt(TRUE, get_number(c.item.arguments, 1).v)
                ELSE Opt(FALSE, NoNumber)
        opt_enum(name) ==
            LET c == last_named_child(syntax, name)
            IN  IF c.some
                THEN Opt(TRUE, VariantOf(table(name), get_string(Head(c.item.arguments))).v)
                ELSE Opt(FALSE, "")
        number(name) ==
            IF opt_number(name).some THEN opt_number(name).v ELSE Normalize(FALSE, 0, 0)
    IN  IF \E i \in 1..Len(syntax.children) : child_panics(syntax.children[i])
        THEN [panic |-> TRUE, v |-> <<>>]
        ELSE [panic |-> FALSE,
              v |-> [type |-> "FootprintZoneFillSettings",
                     fill |-> IF syntax.arguments # <<>>
                              THEN Opt(TRUE, get_string(Head(syntax.arguments)) = Kw.yes)
                              ELSE Opt(FALSE, FALSE),
                     mode |-> IF opt_enum(Kw.mode).some THEN "Hatched" ELSE "Solid",
                     thermal_gap |-> number(Kw.thermal_gap),
                     thermal_bridge_width |-> number(Kw.thermal_bridge_width),
                     smoothing |-> opt_enum(Kw.smoothing),
                     radius |-> opt_number(Kw.radius),
                     island_removal_mode |-> opt_enum(Kw.island_removal_mode),
                     island_area_min |-> opt_number(Kw.island_area_min),
                     hatch_thickness |-> opt_number(Kw.hatch_thickness),
                     hatch_gap |-> opt_number(Kw.hatch_gap),
                     hatch_orientation |-> opt_number(Kw.hatch_orientation),
                     hatch_smoothing_level |-> opt_enum(Kw.hatch_smoothing_level),
                     hatch_smoothing_value |-> opt_number(Kw.hatch_smoothing_value),
                     hatch_border_algorithm |-> opt_enum(Kw.hatch_border_algorithm),
                     hatch_min_hole_area |-> opt_number(Kw.hatch_min_hole_area)]]

(***************************************************************************)
(* Symbol (symbol_library.rs 244-357).  A property, pin or shape of a      *)
(* symbol is carried as the node it was read from: what the shapes' own    *)
(* deserialize and serialize do to their fields is no part of this model,  *)
(* which follows the children of the symbol node into the fields of the    *)
(* Symbol and back.                                                        *)
(***************************************************************************)

KwSymbol ==
    [
      symbol |-> <<"s","y","m","b","o","l">>,
      property |-> <<"p","r","o","p","e","r","t","y">>,
      pin |-> <<"p","i","n">>,
      arc |-> <<"a","r","c">>,
      circle |-> <<"c","i","r","c","l","e">>,
      bezier |-> <<"b","e","z","i","e","r">>,
      polyline |-> <<"p","o","l","y","l","i","n","e">>,
      rectangle |-> <<"r","e","c","t","a","n","g","l","e">>,
      text |-> <<"t","e","x","t">>,
      in_bom |-> <<"i","n","_","b","o","m">>,
      on_board |-> <<"o","n","_","b","o","a","r","d">>,
      exclude_from_sim |-> <<"e","x","c","l","u","d","e","_","f","r","o","m","_","s","i","m">>,
      extends |-> <<"e","x","t","e","n","d","s">>,
      unit_name |-> <<"u","n","i","t","_","n","a","m","e">>,
      pin_numbers |-> <<"p","i","n","_","n","u","m","b","e","r","s">>,
      pin_names |-> <<"p","i","n","_","n","a","m","e","s">>,
      hidden |-> <<"h","i","d","d","e","n">>,
      hide |-> <<"h","i","d","e">>,
      offset |-> <<"o","f","f","s","e","t">>,
      embedded_fonts |-> <<"e","m","b","e","d","d","e","d","_","f","o","n","t","s">>,
      start |-> <<"s","t","a","r","t">>
    ]

\* symbol_library.rs 305-326: the Symbol before its children are read
NewSymbol(name) ==
    [type |-> "Symbol", symbol_id |-> name,
     in_bom |-> Opt(FALSE, FALSE), on_board |-> Opt(FALSE, FALSE),
     exclude_from_sim |-> Opt(FALSE, FALSE),
     properties |-> <<>>, pins |-> <<>>, arcs |-> <<>>, circles |-> <<>>,
     rectangles |-> <<>>, lines |-> <<>>, curves |-> <<>>, texts |-> <<>>,
     units |-> <<>>,
     extends_id |-> Opt(FALSE, <<>>), unit_name |-> Opt(FALSE, <<>>),
     pin_numbers_hidden |-> FALSE, pin_names_hidden |-> FALSE,
     pin_names_offset |-> Opt(FALSE, NoNumber)]

\* the fields the children of a kind are pushed to (330-337), in the order
\* serialize writes the fields (282-289)
SymbolFields ==
    << [name |-> KwSymbol.property, field |-> "properties"],
       [name |-> KwSymbol.arc, field |-> "arcs"],
       [name |-> KwSymbol.circle, field |-> "circles"],
       [name |-> KwSymbol.bezier, field |-> "curves"],
       [name |-> KwSymbol.polyline, field |-> "lines"],
       [name |-> KwSymbol.rectangle, field |-> "rectangles"],
       [name |-> KwSymbol.text, field |-> "texts"],
       [name |-> KwSymbol.pin, field |-> "pins"] >>

RECURSIVE Symbol_deserialize(_)

\* symbol_library.rs 329-352: one turn of the loop over the children
SymbolChild(st, child) ==
    LET symbol == st.v
        n == child.name
        pushed == SelectSeq(SymbolFields, LAMBDA f : f.name = n)
        given == child.arguments # <<>>
        str == get_string(Head(child.arguments))
        set(v) == IF given THEN [panic |-> FALSE, v |-> v] ELSE [panic |-> TRUE, v |-> symbol]
    IN  IF st.panic THEN st
        ELSE IF pushed # <<>>
        THEN [panic |-> FALSE,
              v |-> [symbol EXCEPT ![Head(pushed).field] = Append(@, [node |-> child])]]
        ELSE IF n = KwSymbol.in_bom
        THEN set([symbol EXCEPT !.in_bom = Opt(TRUE, str = Kw.yes)])
        ELSE IF n = KwSymbol.on_board
        THEN set([symbol EXCEPT !.on_board = Opt(TRUE, str = Kw.yes)])
        ELSE IF n = KwSymbol.exclude_from_sim
        THEN set([symbol EXCEPT !.exclude_from_sim = Opt(TRUE, str = Kw.yes)])
        ELSE IF n = KwSymbol.extends
        THEN set([symbol EXCEPT !.extends_id = Opt(TRUE, str)])
        ELSE IF n = KwSymbol.unit_name
        THEN set([symbol EXCEPT !.unit_name = Opt(TRUE, str)])
        ELSE IF n = KwSymbol.pin_numbers
        THEN set([symbol EXCEPT !.pin_numbers_hidden = (str = KwSymbol.hidden)])
        ELSE IF n = KwSymbol.pin_names
        THEN LET offset == get_named_child(child, KwSymbol.offset)
                 number == get_number(offset.item.arguments, 1)
             IN  IF offset.some /\ number.panic THEN [panic |-> TRUE, v |-> symbol]
                 ELSE [panic |-> FALSE,
                       v |-> [symbol EXCEPT
                                !.pin_names_hidden =
                                    \E i \in 1..Len(child.arguments) :
                                        child.arguments[i]
                                            = TextArgument("Identifier", KwSymbol.hide),
                                !.pin_names_offset =
                                    IF offset.some THEN Opt(TRUE, number.v)
                                    ELSE Opt(FALSE, NoNumber)]]
        ELSE IF n = KwSymbol.symbol
        THEN LET unit == Symbol_deserialize(child)
             IN  IF unit.panic THEN [panic |-> TRUE, v |-> symbol]
                 ELSE [panic |-> FALSE, v |-> [symbol EXCEPT !.units = Append(@, unit.v)]]
        ELSE IF n = KwSymbol.embedded_fonts THEN st
        ELSE [panic |-> TRUE, v |-> symbol]

RECURSIVE SymbolChildren(_, _)
SymbolChildren(st, children) ==
    IF children = <<>> THEN st
    ELSE SymbolChildren(SymbolChild(st, Head(children)), Tail(children))

\* Symbol::deserialize (symbol_library.rs 302-356)
Symbol_deserialize(syntax) ==
    IF syntax.arguments = <<>> THEN [panic |-> TRUE, v |-> NewSymbol(<<>>)]
    ELSE SymbolChildren([panic |-> FALSE,
                         v |-> NewSymbol(get_string(Head(syntax.arguments)))],
                        syntax.children)

RECURSIVE Symbol_serialize(_)
RECURSIVE SymbolFieldNodes(_, _)

\* symbol_library.rs 282-289: the nodes of the fields from the i-th on
SymbolFieldNodes(self, i) ==
    IF i > Len(SymbolFields) THEN <<>>
    ELSE LET records == self[SymbolFields[i].field]
         IN  [k \in 1..Len(records) |-> records[k].node]
             \o SymbolFieldNodes(self, i + 1)

\* Symbol::serialize (symbol_library.rs 245-300)
Symbol_serialize(self) ==
    LET yes_no(b) == TextArgument("Identifier", IF b THEN Kw.yes ELSE Kw.no)
        flag(name, o) ==
            IF o.some THEN <<from_single_argument(name, yes_no(o.v))>> ELSE <<>>
        quoted(name, o) ==
            IF o.some
            THEN <<from_single_argument(name, TextArgument("QuotedString", o.v))>>
            ELSE <<>>
        pin_names ==
            IF self.pin_names_hidden \/ self.pin_names_offset.some
            THEN <<SyntaxItem(KwSymbol.pin_names,
                      IF self.pin_names_hidden
                      THEN <<SyntaxArgument("Identifier", KwSymbol.hide, NoNumber, "End")>>
                      ELSE <<>>,
                      IF self.pin_names_offset.some
                      THEN <<from_single_argument(KwSymbol.offset,
                                 NumberArgument(self.pin_names_offset.v))>>
                      ELSE <<>>)>>
            ELSE <<>>
        pin_numbers ==
            IF self.pin_numbers_hidden
            THEN <<from_single_argument(KwSymbol.pin_numbers,
                       TextArgument("Identifier", KwSymbol.hidden))>>
            ELSE <<>>
    IN  SyntaxItem(KwSymbol.symbol,
            <<TextArgument("QuotedString", self.symbol_id)>>,
            pin_names \o pin_numbers
            \o flag(KwSymbol.in_bom, self.in_bom)
            \o flag(KwSymbol.on_board, self.on_board)
            \o quoted(KwSymbol.extends, self.extends_id)
            \o quoted(KwSymbol.unit_name, self.unit_name)
            \o flag(KwSymbol.exclude_from_sim, self.exclude_from_sim)
            \o SymbolFieldNodes(self, 1)
            \o [k \in 1..Len(self.units) |-> Symbol_serialize(self.units[k])])

\* SyntaxItemSerializable (syntax.rs 426-429) for the record kinds above
serialize(self) ==
    IF self.type = "FootprintCircle" THEN FootprintCircle_serialize(self)
    ELSE IF self.type = "Symbol" THEN Symbol_serialize(self)
    ELSE FootprintZoneFillSettings_serialize(self)

deserialize(syntax) ==
    IF syntax.name = Kw.fp_circle THEN FootprintCircle_deserialize(syntax)
    ELSE IF syntax.name = KwSymbol.symbol THEN Symbol_deserialize(syntax)
    ELSE FootprintZoneFillSettings_deserialize(syntax)

(***************************************************************************)
(* The record trees: the nodes parse_syntax_item returns for records as    *)
(* KiCad writes them.  The tokenizer decides the kind of every argument.   *)
(***************************************************************************)

\* the node of a name and the texts of its arguments, without children
Leaf(name, texts) ==
    SyntaxItem(name, [i \in 1..Len(texts) |-> ArgumentOf(Head(tokenize(texts[i]).tokens))], <<>>)

\* fp_circle nodes: outline by width or by stroke, with and without a fill,
\* a lock and a uuid
CircleTrees ==
    LET strokes ==
            { <<Leaf(Kw.width, <<<<"0",".","1","2">>>>)>>,
              <<SyntaxItem(Kw.stroke, <<>>,
                    <<Leaf(Kw.width, <<<<"0",".","1","2">>>>), Leaf(Kw.type, <<Kw.solid>>)>>)>>,
              <<SyntaxItem(Kw.stroke, <<>>,
                    <<Leaf(Kw.width, <<<<"0",".","1">>>>), Leaf(Kw.type, <<Kw.default>>),
                      Leaf(Kw.color, <<<<"0">>, <<"0">>, <<"0">>, <<"0">>>>)>>)>>,
              <<SyntaxItem(Kw.stroke, <<>>,
                    <<Leaf(Kw.width, <<<<"0",".","1">>>>), Leaf(Kw.type, <<Kw.dash>>),
                      Leaf(Kw.color, <<<<"2","5","5">>, <<"0">>, <<"0">>, <<"0",".","5">>>>)>>)>> }
        fills == { <<>> } \cup { <<Leaf(Kw.fill, <<f>>)>> : f \in {Kw.yes, Kw.no, Kw.solid, Kw.none} }
        locks == { <<>>, <<Leaf(Kw.locked, <<Kw.yes>>)>> }
        uuids == { <<>>, <<Leaf(Kw.uuid, <<<<DQ,"u","1",DQ>>>>)>> }
    IN  { SyntaxItem(Kw.fp_circle, <<>>,
               <<Leaf(Kw.center, <<<<"0">>, <<"0">>>>), Leaf(Kw.end, <<<<"1",".","5">>, <<"0">>>>)>>
               \o lock \o stroke \o fill \o <<Leaf(Kw.layer, <<<<DQ,"F",".","S","i","l","k","S",DQ>>>>)>> \o uuid) :
          stroke \in strokes, fill \in fills, lock \in locks, uuid \in uuids }

\* the fill node of a zone: solid or hatched, with and without corner
\* smoothing and island removal
ZoneFillTrees ==
    LET thermal == <<Leaf(Kw.thermal_gap, <<<<"0",".","5">>>>), Leaf(Kw.thermal_bridge_width, <<<<"0",".","5">>>>)>>
        smoothings ==
            { <<>> } \cup
            { <<Leaf(Kw.smoothing, <<s>>), Leaf(Kw.radius, <<<<"1">>>>)>> : s \in {Kw.chamfer, Kw.fillet} }
        islands ==
            { <<>>, <<Leaf(Kw.island_removal_mode, <<<<"0">>>>)>>,
              <<Leaf(Kw.island_removal_mode, <<<<"1">>>>)>>,
              <<Leaf(Kw.island_removal_mode, <<<<"2">>>>), Leaf(Kw.island_area_min, <<<<"1","0">>>>)>> }
        hatches ==
            { <<>> } \cup
            { <<Leaf(Kw.hatch_thickness, <<<<"1">>>>), Leaf(Kw.hatch_gap, <<<<"1",".","5">>>>),
                Leaf(Kw.hatch_orientation, <<<<"0">>>>), Leaf(Kw.hatch_smoothing_level, <<l>>),
                Leaf(Kw.hatch_smoothing_value, <<<<"0",".","1">>>>),
                Leaf(Kw.hatch_min_hole_area, <<<<"0",".","3">>>>)>> : l \in {<<"0">>, <<"1">>, <<"2">>, <<"3">>} }
    IN  { SyntaxItem(Kw.fill, [i \in 1..Len(yes) |-> Leaf(Kw.fill, yes).arguments[i]],
               (IF hatch = <<>> THEN <<>> ELSE <<Leaf(Kw.mode, <<Kw.hatched>>)>>)
               \o thermal \o smoothing \o island \o hatch) :
          yes \in { <<>>, <<Kw.yes>> }, smoothing \in smoothings,
          island \in islands, hatch \in hatches }

RecordTrees == CircleTrees \cup ZoneFillTrees

MaxShapes == 3

\* the children of a symbol unit: a rectangle, a polyline, an arc, a pin
UnitShapes ==
    { SyntaxItem(KwSymbol.rectangle, <<>>,
          <<Leaf(KwSymbol.start, << <<"0">>, <<"0">> >>), Leaf(Kw.end, << <<"2">>, <<"1">> >>)>>),
      SyntaxItem(KwSymbol.polyline, <<>>,
          <<SyntaxItem(<<"p","t","s">>, <<>>,
               <<Leaf(<<"x","y">>, << <<"0">>, <<"0">> >>),
                 Leaf(<<"x","y">>, << <<"2">>, <<"1">> >>)>>)>>),
      SyntaxItem(KwSymbol.arc, <<>>,
          <<Leaf(KwSymbol.start, << <<"0">>, <<"1">> >>), Leaf(Kw.end, << <<"1">>, <<"0">> >>)>>),
      SyntaxItem(KwSymbol.pin,
          <<TextArgument("Identifier", <<"i","n","p","u","t">>),
            TextArgument("Identifier", <<"l","i","n","e">>)>>,
          <<Leaf(<<"a","t">>, << <<"0">>, <<"0">>, <<"0">> >>)>>) }

\* the head of a symbol as KiCad 6, 7 and 8 write it
SymbolHeads ==
    LET yes(name) == Leaf(name, <<Kw.yes>>)
    IN  { <<yes(KwSymbol.in_bom), yes(KwSymbol.on_board)>>,
          <<SyntaxItem(KwSymbol.pin_names, <<>>, <<Leaf(KwSymbol.offset, << <<"0">> >>)>>),
            yes(KwSymbol.in_bom), yes(KwSymbol.on_board)>>,
          <<Leaf(KwSymbol.exclude_from_sim, <<Kw.no>>),
            yes(KwSymbol.in_bom), yes(KwSymbol.on_board)>> }

\* symbol nodes: the head, a property and one unit with its shapes
SymbolTrees ==
    { SyntaxItem(KwSymbol.symbol, <<TextArgument("QuotedString", <<"R">>)>>,
          head
          \o <<Leaf(KwSymbol.property, << <<DQ, "V", "a", "l", "u", "e", DQ>>, <<DQ, "R", DQ>> >>)>>
          \o <<SyntaxItem(KwSymbol.symbol,
                   <<TextArgument("QuotedString", <<"R", "_", "0", "_", "1">>)>>,
                   shapes)>>) :
        head \in SymbolHeads, shapes \in SeqsUpTo(UnitShapes, MaxShapes) }

\* the parsed tree of a symbol (symbol_library.rs 232)
SymbolTreeInit ==
    /\ item \in SymbolTrees
    /\ record = <<>>
    /\ item_ser = NoItem
    /\ record_back = <<>>
    /\ rec_pc = "parsed"

RecordIdle ==
    /\ item = NoItem
    /\ record = <<>>
    /\ item_ser = NoItem
    /\ record_back = <<>>
    /\ rec_pc = "idle"

\* the parsed tree of a record (dev.rs 19-20)
RecordInit ==
    /\ item \in RecordTrees
    /\ record = <<>>
    /\ item_ser = NoItem
    /\ record_back = <<>>
    /\ rec_pc = "parsed"

\* dev.rs 21: the model of the parsed tree
DeserializeItem ==
    /\ rec_pc = "parsed"
    /\ LET r == deserialize(item)
       IN  /\ record' = r.v
           /\ rec_pc' = IF r.panic THEN "panic" ELSE "model"
    /\ UNCHANGED <<item, item_ser, record_back>>

\* dev.rs 23: the tree of the model
SerializeRecord ==
    /\ rec_pc = "model"
    /\ item_ser' = serialize(record)
    /\ rec_pc' = "serialized"
    /\ UNCHANGED <<item, record, record_back>>

\* the written tree read again, as a later run reads the library it wrote
DeserializeAgain ==
    /\ rec_pc = "serialized"
    /\ LET r == deserialize(item_ser)
       IN  /\ record_back' = r.v
           /\ rec_pc' = IF r.panic THEN "panic_back" ELSE "done"
    /\ UNCHANGED <<item, record, item_ser>>


----------------------------------------------------------------------------
(* The footprint translator: TryInto<FootprintLibrary> for EasyEDAFootprint *)
(* (easyeda/footprint.rs 162-600) and populate_footprint_shapes (620-813).  *)
(* Lengths are counted in 1/10000 mm as in the path decoder; a stroke       *)
(* width is carried in hundredths of an EasyEDA unit, so that the widths    *)
(* 0.1 and 0.05 the translator passes are the integers 10 and 5, and a     *)
(* stored width is that number times scale_factor.  The points of an arc    *)
(* (get_arc_center, interpolate_arc_points: trigonometry on f32) are kept   *)
(* as terms over their arguments.                                           *)

JsonNull == [t |-> "Null", s |-> "", n |-> 0, repr |-> "none"]
JsonArray(a) == [t |-> "Array", s |-> "", n |-> 0, repr |-> "none", a |-> a]

\* serde_json::Value::is_array and is_null
is_array(v) == v.t = "Array"
is_null(v) == v.t = "Null"

\* Value::as_str().is_some_and(|s| s == text)
is_str(v, text) == is_string(v) /\ v.s = text

Layer(layer_type, name) == [layer_type |-> layer_type, name |-> name]

\* the layer types get_kicad_layer names (211-229)
LayerTypes ==
    [TOP_SILK |-> "FSilkS", BOT_SILK |-> "BSilkS", COMPONENT_SHAPE |-> "FFab",
     DOCUMENT |-> "FFab", OUTLINE |-> "FFab", MECHANICAL |-> "FFab",
     BOT_ASSEMBLY |-> "FFab", TOP_ASSEMBLY |-> "FFab",
     COMPONENT_MARKING |-> "FSilkS", TOP_PASTE_MASK |-> "FPaste",
     BOT_PASTE_MASK |-> "BPaste", TOP_SOLDER_MASK |-> "FMask",
     BOT_SOLDER_MASK |-> "BMask", PIN_SOLDERING |-> "FFab",
     PIN_FLOATING |-> "FFab", TOP |-> "FCu", BOTTOM |-> "BCu"]

\* the number of inner copper layers get_kicad_layer names (232-261)
InnerLayers == 30

\* footprint.rs 209-268.  The name of a SIGNAL layer is <<"Inner", n>> for
\* the text "Inner" followed by the numeral of n
get_kicad_layer(layer) ==
    IF layer.layer_type \in DOMAIN LayerTypes
    THEN [err |-> "none", v |-> Opt(TRUE, LayerTypes[layer.layer_type])]
    ELSE IF layer.layer_type = "MULTI"
    THEN [err |-> "none", v |-> Opt(FALSE, "")]
    ELSE IF layer.layer_type = "SIGNAL"
    THEN IF /\ Len(layer.name) = 2 /\ layer.name[1] = "Inner"
            /\ layer.name[2] \in 1..InnerLayers
         THEN [err |-> "none", v |-> Opt(TRUE, PcbLayer[layer.name[2] + 1])]
         ELSE [err |-> "UnsupportedInnerLayer", v |-> Opt(FALSE, "")]
    ELSE [err |-> "UnsupportedLayer", v |-> Opt(FALSE, "")]

\* PcbLayer::all_copper (footprint_library.rs 584-619)
all_copper == SubSeq(PcbLayer, 1, 32)

Point2D(x, y) == <<x, y>>

\* footprint.rs 650-661: the commands moved by the pad-anchor offset
WithOffset(c, offset) ==
    LET p == c.params
    IN  IF c.name \in {"MoveTo", "LineTo"}
        THEN [name |-> "MoveTo",
              params |-> <<p[1] + offset[1], p[2] + offset[2]>>]
        ELSE IF c.name \in {"ArcTo", "CenterArcTo"}
        THEN [c EXCEPT !.params = <<p[1], p[2] + offset[1], p[3] + offset[2]>>]
        ELSE [c EXCEPT !.params[1] = p[1] + offset[1],
                       !.params[2] = p[2] + offset[2]]

\* footprint.rs 682: the rectangles add_rectangle can take
IsPlainRectangle(rotation, corner_radius) == rotation = 0 /\ corner_radius = 0

RECURSIVE StandaloneShapes(_, _, _, _, _)
\* footprint.rs 665-702: the loop over circles and rectangles
StandaloneShapes(cmds, c, layer, width, filled) ==
    IF cmds = <<>> THEN c
    ELSE LET p == Head(cmds).params
         IN  IF Head(cmds).name = "Circle"
             THEN StandaloneShapes(Tail(cmds),
                      [c EXCEPT !.circles = Append(@,
                          [center |-> <<p[1], p[2]>>, end |-> <<p[1] + p[3], p[2]>>,
                           layer |-> layer, width |-> width, fill |-> filled])],
                      layer, width, filled)
             ELSE IF IsPlainRectangle(p[5], p[6])
             THEN StandaloneShapes(Tail(cmds),
                      [c EXCEPT !.rectangles = Append(@,
                          [start |-> <<p[1], p[2]>>,
                           end |-> <<p[1] + p[3], p[2] + p[4]>>,
                           layer |-> layer, width |-> width, fill |-> filled])],
                      layer, width, filled)
             ELSE [c EXCEPT !.panic = TRUE]                 \* todo!()

RECURSIVE ArcPoints(_, _, _)
\* footprint.rs 771-797: the points of a polygon with arcs
ArcPoints(cmds, last_position, points) ==
    IF cmds = <<>> THEN points
    ELSE LET p == Head(cmds).params
         IN  IF Head(cmds).name \in {"MoveTo", "LineTo"}
             THEN ArcPoints(Tail(cmds), <<p[1], p[2]>>, Append(points, <<p[1], p[2]>>))
             ELSE LET end == <<p[2], 0 - p[3]>>
                  IN  ArcPoints(Tail(cmds), end,
                          points \o << <<"interpolate_arc_points", last_position,
                                         end, 0 - p[1]>>, end >>)

\* footprint.rs 642-811: the shapes of one decoded path
ShapesOfPath(decoded, c, layer, width, filled, offset) ==
    LET names == {decoded[i].name : i \in 1..Len(decoded)}
        is_standalone_shape == names \subseteq {"Circle", "Rectangle"}
        contains_arcs ==
            ~is_standalone_shape /\ names \cap {"ArcTo", "CenterArcTo"} # {}
        cmds == IF offset.some
                THEN [i \in 1..Len(decoded) |-> WithOffset(decoded[i], offset.v)]
                ELSE decoded
        shapeNames == {cmds[i].name : i \in 1..Len(cmds)}
    IN  IF is_standalone_shape
        THEN StandaloneShapes(cmds, c, layer, width, filled)
        ELSE IF shapeNames \cap {"Circle", "Rectangle"} # {}
        THEN [c EXCEPT !.panic = TRUE]                      \* unreachable!()
        ELSE IF ~contains_arcs
        THEN IF Len(cmds) = 2 /\ cmds[1].name = "MoveTo" /\ cmds[2].name = "LineTo"
             THEN [c EXCEPT !.lines = Append(@,
                      [start |-> cmds[1].params, end |-> cmds[2].params,
                       layer |-> layer, width |-> width])]
             ELSE [c EXCEPT !.polygons = Append(@,
                      [fill |-> filled, layer |-> layer, width |-> width,
                       points |-> [i \in 1..Len(cmds) |-> cmds[i].params]])]
        ELSE IF /\ Len(cmds) = 2 /\ cmds[1].name = "MoveTo"
                /\ cmds[2].name \in {"ArcTo", "CenterArcTo"}
        THEN LET start == cmds[1].params
                 end == <<cmds[2].params[2], 0 - cmds[2].params[3]>>
             IN  [c EXCEPT !.arcs = Append(@,
                     [start |-> start, end |-> end,
                      mid |-> <<"get_arc_center", start, end, cmds[2].params[1]>>,
                      layer |-> layer, width |-> width])]
        ELSE [c EXCEPT !.polygons = Append(@,
                 [fill |-> filled, layer |-> layer, width |-> width,
                  points |-> ArcPoints(cmds, <<0, 0>>, <<>>)])]

RECURSIVE populate_footprint_shapes(_, _, _, _, _, _)
\* footprint.rs 620-813.  c is the PrimitivesContainer with a panic flag;
\* expand_bbox_to_shape changes two locals nothing reads and is left out.
\* A panic ends the process, so nothing is added after one.
populate_footprint_shapes(paths, c, layer, stroke_width, filled, offset) ==
    IF c.panic \/ paths = <<>> THEN c
    ELSE IF \A i \in 1..Len(paths) : is_array(paths[i])
    THEN populate_footprint_shapes(Tail(paths),
             populate_footprint_shapes(Head(paths).a, c, layer, stroke_width,
                                       filled, offset),
             layer, stroke_width, filled, offset)
    ELSE LET decoded == DecodePath(PreparePath(paths).path, 1, <<>>)
         IN  IF decoded.panic THEN [c EXCEPT !.panic = TRUE]
             ELSE ShapesOfPath(decoded.commands, c, layer,
                               stroke_width * scale_factor, filled, offset)

\* `as_f64().unwrap() as f32 * scale_factor` of the i-th value of an array
\* (counted from 0 as in the source); panic when it is missing or no number
get_scaled(a, i) ==
    IF i + 1 <= Len(a) /\ is_number(a[i + 1])
    THEN [panic |-> FALSE, v |-> a[i + 1].n * scale_factor]
    ELSE [panic |-> TRUE, v |-> 0]

\* Option::or(Some(d)).map(|v| v * scale_factor)
ScaledOr(o, d) == (IF o.some THEN o.v ELSE d) * scale_factor

Max(a, b) == IF a >= b THEN a ELSE b
Abs(a) == IF a >= 0 THEN a ELSE 0 - a

\* the layers of a pad that goes through the board (380-384, 327-331)
ThroughLayers == <<"FMask", "BMask">> \o all_copper

\* FootprintLibrary as try_into starts it (166-192), with the flags that
\* say how the function ended
NewFootprint ==
    [panic |-> FALSE, err |-> "none", rot |-> 0,
     footprint_type |-> "Smd",
     lines |-> <<>>, arcs |-> <<>>, circles |-> <<>>, pads |-> <<>>,
     polygons |-> <<>>, rectangles |-> <<>>, texts |-> <<>>,
     properties |-> <<>>]

\* FootprintPadPrimitives of a custom pad (432-442, 445-446)
NewPadPrimitives ==
    [panic |-> FALSE, rectangles |-> <<>>, circles |-> <<>>, polygons |-> <<>>,
     lines |-> <<>>, arcs |-> <<>>]

Panicked(fp) == [fp EXCEPT !.panic = TRUE]
ReturnedErr(fp, error) == [fp EXCEPT !.err = error]
Stopped(fp) == fp.panic \/ fp.err # "none"

\* footprint.rs 271-281 and 284-294: one polygon (filled = FALSE) or one
\* fill (filled = TRUE) outside the MULTI layers
ConvertOutline(fp, shape, filled) ==
    IF ~is_array(shape.path) THEN Panicked(fp)
    ELSE LET kicad_layer == get_kicad_layer(shape.layer)
         IN  IF kicad_layer.err # "none" THEN ReturnedErr(fp, kicad_layer.err)
             ELSE IF ~kicad_layer.v.some THEN fp
             ELSE populate_footprint_shapes(shape.path.a, fp, kicad_layer.v.v,
                                            shape.width, filled, Opt(FALSE, <<>>))

\* footprint.rs 309-349: one sub-path of a fill on a MULTI layer
ConvertMechanical(fp, sub_path) ==
    IF ~is_array(sub_path) \/ sub_path.a = <<>> THEN Panicked(fp)
    ELSE IF is_str(sub_path.a[1], "CIRCLE")
    THEN LET center_x == get_scaled(sub_path.a, 1)
             center_y == get_scaled(sub_path.a, 2)
             radius == get_scaled(sub_path.a, 3)
         IN  IF center_x.panic \/ center_y.panic \/ radius.panic
             THEN Panicked(fp)
             ELSE [fp EXCEPT
                     !.footprint_type = "ThroughHole",
                     !.pads = Append(@,
                        [number |-> "", pad_type |-> "NpThruHole",
                         pad_shape |-> "Circle",
                         position |-> [x |-> center_x.v, y |-> 0 - center_y.v,
                                       angle |-> Opt(FALSE, 0)],
                         size |-> <<radius.v * 2, radius.v * 2>>,
                         drill |-> Opt(TRUE,
                            [oval |-> FALSE, diameter |-> radius.v * 2,
                             width |-> Opt(FALSE, 0), offset |-> Opt(FALSE, <<>>)]),
                         layers |-> ThroughLayers,
                         solder_mask_margin |-> Opt(FALSE, 0),
                         solder_paste_margin |-> Opt(FALSE, 0),
                         primitives |-> Opt(FALSE, <<>>)])]
    ELSE populate_footprint_shapes(sub_path.a, fp, "EdgeCuts", 5, FALSE,
                                   Opt(FALSE, <<>>))

RECURSIVE ConvertMechanicals(_, _)
ConvertMechanicals(fp, path_list) ==
    IF fp.panic \/ path_list = <<>> THEN fp
    ELSE ConvertMechanicals(ConvertMechanical(fp, Head(path_list)), Tail(path_list))

\* footprint.rs 296-357: one fill, as a cut-out when its layer is MULTI
ConvertMechanicalFill(fp, fill) ==
    IF ~is_array(fill.path) \/ fill.path.a = <<>> THEN Panicked(fp)
    ELSE IF fill.layer.layer_type # "MULTI" THEN fp
    ELSE ConvertMechanicals(fp, IF is_array(fill.path.a[1]) THEN fill.path.a
                                ELSE <<fill.path>>)

\* footprint.rs 410: the test of the rectangular pad
IsRectPath(p) == Len(p) = 4 /\ is_str(p[1], "RECT")

\* footprint.rs 410-451: the shape of the pad
PadShapeOf(ki_pad, pad, p) ==
    LET w == get_scaled(p, 1)
        h == get_scaled(p, 2)
        sized(shape) ==
            IF w.panic \/ h.panic THEN [panic |-> TRUE, err |-> "none", v |-> ki_pad]
            ELSE [panic |-> FALSE, err |-> "none",
                  v |-> [ki_pad EXCEPT !.pad_shape = shape, !.size = <<w.v, h.v>>]]
    IN  IF p = <<>> THEN [panic |-> TRUE, err |-> "none", v |-> ki_pad]
        ELSE IF IsRectPath(p) THEN sized("Rect")
        ELSE IF Len(p) = 3 /\ is_str(p[1], "ELLIPSE") THEN sized("Oval")
        ELSE IF Len(p) = 3 /\ is_str(p[1], "OVAL") THEN sized("Oval")
        ELSE IF is_str(p[1], "POLY")
        THEN IF Len(p) < 2 \/ ~is_array(p[2])
             THEN [panic |-> TRUE, err |-> "none", v |-> ki_pad]
             ELSE LET pad_primitives ==
                         populate_footprint_shapes(p[2].a, NewPadPrimitives, "FCu",
                             10, TRUE,
                             Opt(TRUE, Point2D((0 - pad.center_x) * scale_factor,
                                               pad.center_y * scale_factor)))
                  IN  [panic |-> pad_primitives.panic, err |-> "none",
                       v |-> [ki_pad EXCEPT !.pad_shape = "Custom",
                                            !.size = <<100, 100>>,
                                            !.primitives = Opt(TRUE, pad_primitives)]]
        ELSE [panic |-> FALSE, err |-> "UnsupportedPadShape", v |-> ki_pad]

\* the rotation cut to whole degrees and nothing else
DrillRotation_Whole(hole_rotation) == hole_rotation \div 10

\* footprint.rs 464: `hole_rotation.abs() as u32 % 360`, the rotation given
\* in tenths of a degree; the cast drops the fraction
DrillRotation(hole_rotation) == (Abs(hole_rotation) \div 10) % 360

\* footprint.rs 453-483: the hole of the pad
PadHoleOf(fp, ki_pad, pad) ==
    IF ~pad.hole.some THEN Panicked(fp)
    ELSE IF is_null(pad.hole.v)
    THEN [fp EXCEPT !.footprint_type = "Smd", !.pads = Append(@, ki_pad)]
    ELSE IF ~is_array(pad.hole.v)
    THEN [fp EXCEPT !.pads = Append(@, ki_pad)]
    ELSE
    LET hole_shape == pad.hole.v.a
        through == [fp EXCEPT !.footprint_type = "ThroughHole"]
        ok == /\ Len(hole_shape) >= 3
              /\ is_number(hole_shape[2]) /\ is_number(hole_shape[3])
              /\ is_string(hole_shape[1])
              /\ hole_shape[1].s \in {"SLOT", "ROUND"}
        rotation == IF pad.hole_rotation.some
                    THEN DrillRotation(pad.hole_rotation.v) ELSE 0
        swap == rotation \in {90, 270}
        hole_param1 == IF swap THEN hole_shape[3].n ELSE hole_shape[2].n
        hole_param2 == IF swap THEN hole_shape[2].n ELSE hole_shape[3].n
    IN  IF ~ok THEN Panicked(through)
        ELSE IF rotation \notin {0, 90, 180, 270}
        THEN [through EXCEPT !.err = "UnsupportedDrillRotation", !.rot = rotation]
        ELSE [through EXCEPT !.pads = Append(@,
                [ki_pad EXCEPT
                   !.pad_type = "ThruHole",
                   !.drill = Opt(TRUE,
                      [oval |-> hole_shape[1].s = "SLOT",
                       offset |-> Opt(TRUE, <<pad.hole_offset_x * scale_factor,
                                              pad.hole_offset_y * scale_factor>>),
                       width |-> Opt(TRUE, hole_param2 * scale_factor),
                       diameter |-> hole_param1 * scale_factor])])]

\* footprint.rs 362-486: one pad
ConvertPad(fp, pad) ==
    IF ~pad.path.some \/ ~is_array(pad.path.v) THEN Panicked(fp)
    ELSE
    LET kicad_layer == get_kicad_layer(pad.layer)
        ki_pad ==
            [number |-> pad.num, pad_type |-> "Smd", pad_shape |-> "Custom",
             position |-> [x |-> pad.center_x * scale_factor,
                           y |-> (0 - pad.center_y) * scale_factor,
                           angle |-> Opt(TRUE, pad.rotation)],
             size |-> <<0, 0>>,
             drill |-> Opt(FALSE, <<>>),
             layers |-> IF pad.layer.layer_type = "MULTI" THEN ThroughLayers
                        ELSE <<kicad_layer.v.v, "FMask", "FPaste">>,
             solder_mask_margin |-> Opt(TRUE, ScaledOr(pad.top_solder_expansion, 2)),
             solder_paste_margin |->
                 Opt(TRUE, Max(ScaledOr(pad.top_paste_expansion, 0), 0)),
             primitives |-> Opt(FALSE, <<>>)]
        shaped == PadShapeOf(ki_pad, pad, pad.path.v.a)
    IN  IF kicad_layer.err # "none" THEN ReturnedErr(fp, kicad_layer.err)
        ELSE IF shaped.panic THEN Panicked(fp)
        ELSE IF shaped.err # "none" THEN ReturnedErr(fp, shaped.err)
        ELSE PadHoleOf(fp, shaped.v, pad)

\* the pad of a via
ViaPad(via, pad_type) ==
    [number |-> via.name, pad_type |-> pad_type, pad_shape |-> "Circle",
     position |-> [x |-> via.center_x * scale_factor,
                   y |-> (0 - via.center_y) * scale_factor,
                   angle |-> Opt(FALSE, 0)],
     size |-> <<via.via_diameter * scale_factor, via.via_diameter * scale_factor>>,
     drill |-> Opt(TRUE,
        [oval |-> FALSE, diameter |-> via.hole_diameter * scale_factor,
         width |-> Opt(FALSE, 0), offset |-> Opt(FALSE, <<>>)]),
     layers |-> ThroughLayers,
     solder_mask_margin |-> Opt(TRUE, ScaledOr(via.top_solder_expansion, 2)),
     solder_paste_margin |-> Opt(FALSE, 0),
     primitives |-> Opt(FALSE, <<>>)]

\* a via written as a surface pad that keeps its drill
ConvertVia_Smd(fp, via) == [fp EXCEPT !.pads = Append(@, ViaPad(via, "Smd"))]

\* footprint.rs 489-531: one via
ConvertVia(fp, via) == [fp EXCEPT !.pads = Append(@, ViaPad(via, "ThruHole"))]

\* footprint.rs 546-553: where the text is held, by its origin
Justify(origin) ==
    CASE origin = 1 -> <<"Left", "Bottom">>
      [] origin \in {2, 3} -> <<"Left", "Top">>
      [] origin = 4 -> <<"Right", "Bottom">>
      [] origin \in {5, 6} -> <<"Right", "Top">>
      [] origin = 7 -> <<"Right", "Bottom">>
      [] OTHER -> <<"Right", "Top">>

\* footprint.rs 534-566: one string
ConvertString(fp, string) ==
    LET kicad_layer == get_kicad_layer(string.layer)
    IN  IF kicad_layer.err # "none" THEN ReturnedErr(fp, kicad_layer.err)
        ELSE IF ~kicad_layer.v.some THEN fp
        ELSE [fp EXCEPT !.texts = Append(@,
                [text |-> string.text,
                 position |-> [x |-> string.pos_x * scale_factor,
                               y |-> (0 - string.pos_y) * scale_factor,
                               angle |-> Opt(TRUE, string.angle)],
                 layer |-> kicad_layer.v.v,
                 bold |-> string.is_bold, italic |-> string.is_italic,
                 size |-> <<string.font_size * scale_factor,
                            string.font_size * scale_factor>>,
                 justify |-> Justify(string.origin)])]

\* the body of one of the loops of try_into
ConvertStep(fp, e, loop) ==
    CASE loop = "polygons" -> ConvertOutline(fp, e, FALSE)
      [] loop = "fills" -> ConvertOutline(fp, e, TRUE)
      [] loop = "mechanical" -> ConvertMechanicalFill(fp, e)
      [] loop = "pads" -> ConvertPad(fp, e)
      [] loop = "vias" -> ConvertVia(fp, e)
      [] loop = "strings" -> ConvertString(fp, e)

RECURSIVE ConvertEach(_, _, _)
\* one of the loops of try_into, until a step returns an error or panics
ConvertEach(fp, elems, loop) ==
    IF Stopped(fp) \/ elems = <<>> THEN fp
    ELSE ConvertEach(ConvertStep(fp, Head(elems), loop), Tail(elems), loop)

\* footprint.rs 573-595: the Reference and the Value property
WithProperties(fp) ==
    IF Stopped(fp) THEN fp
    ELSE [fp EXCEPT !.properties = <<"Reference", "Value">>]

\* TryInto<FootprintLibrary> for EasyEDAFootprint (162-600).  The polygons,
\* fills, pads, vias and strings of self are HashMaps: each is given as the
\* sequence of its values in the order the loop meets them
EasyEDAFootprint_try_into(self) ==
    LET a == ConvertEach(NewFootprint, self.polygons, "polygons")
        b == ConvertEach(a, self.fills, "fills")
        c == ConvertEach(b, self.fills, "mechanical")
        d == ConvertEach(c, self.pads, "pads")
        e == ConvertEach(d, self.vias, "vias")
        f == ConvertEach(e, self.strings, "strings")
    IN  WithProperties(f)

\* a JSON string and a JSON integer
Str(s) == JsonString(s)
Num(n) == JsonNumber(n, IF n < 0 THEN "NegInt" ELSE "PosInt")

\* an array of JSON values
Arr(a) == JsonArray(a)

\* one M followed by one L
LinePath == Arr(<<Str("M"), Num(10), Num(20), Str("L"), Num(30), Num(40)>>)
CirclePath == Arr(<<Str("CIRCLE"), Num(50), Num(60), Num(7)>>)
\* R x y width height rotation [corner radius]
RectanglePath(rotation, corner) ==
    Arr(<<Str("R"), Num(10), Num(20), Num(30), Num(40), Num(rotation)>> \o corner)

\* paths of polygons and fills: a line, a line from a bare start, a
\* triangle, a circle, rectangles (plain, rotated, rounded), an arc, an
\* arc in an outline, a circle after a move, nothing
OutlinePaths ==
    { LinePath,
      Arr(<<Num(10), Num(20), Str("L"), Num(30), Num(40)>>),
      Arr(<<Str("M"), Num(0), Num(0), Str("L"), Num(30), Num(0), Num(30), Num(40)>>),
      CirclePath,
      RectanglePath(0, <<>>), RectanglePath(0, <<Num(0)>>),
      RectanglePath(90, <<>>), RectanglePath(0, <<Num(5)>>),
      Arr(<<Str("M"), Num(10), Num(20), Str("ARC"), Num(90), Num(30), Num(40)>>),
      Arr(<<Str("M"), Num(0), Num(0), Str("L"), Num(30), Num(0),
            Str("ARC"), Num(90), Num(30), Num(40)>>),
      Arr(<<Str("M"), Num(10), Num(20), Str("CIRCLE"), Num(50), Num(60), Num(7)>>),
      Arr(<<>>) }

\* a fill may hold several paths
NestedPaths ==
    { Arr(<<LinePath, CirclePath>>), Arr(<<CirclePath, RectanglePath(45, <<>>)>>) }

FootprintLayers ==
    { Layer("TOP_SILK", <<"TopSilk">>), Layer("TOP", <<"Top">>),
      Layer("MULTI", <<"Multi">>), Layer("SIGNAL", <<"Inner", 2>>),
      Layer("SIGNAL", <<"Inner", 31>>), Layer("HOLE", <<"Hole">>) }

Polygons ==
    { [layer |-> l, width |-> 600, path |-> p] :
        l \in FootprintLayers, p \in OutlinePaths }

Fills ==
    { [layer |-> l, width |-> 0, path |-> p] :
        l \in FootprintLayers, p \in OutlinePaths \cup NestedPaths }

\* the path of a pad with a shape token and two sizes
SizedPadPath(shape, rest) == Arr(<<Str(shape), Num(40), Num(20)>> \o rest)
\* the path of a custom pad
PolyPadPath(flat) == Arr(<<Str("POLY"), flat>>)
\* one M followed by one L around the pad's centre
PadLinePath == Arr(<<Str("M"), Num(90), Num(90), Str("L"), Num(110), Num(110)>>)

PadPaths ==
    { SizedPadPath("RECT", <<>>), SizedPadPath("RECT", <<Num(0)>>),
      SizedPadPath("ELLIPSE", <<>>), SizedPadPath("OVAL", <<>>),
      SizedPadPath("DIAMOND", <<>>),
      PolyPadPath(PadLinePath),
      PolyPadPath(Arr(<<Str("M"), Num(90), Num(90), Str("L"), Num(110), Num(90),
                        Num(110), Num(110)>>)),
      PolyPadPath(Arr(<<Str("R"), Num(90), Num(110), Num(20), Num(20), Num(45)>>)),
      PolyPadPath(Arr(<<Str("M"), Num(90), Num(90), Str("ARC"), Num(90), Num(110),
                        Num(110)>>)),
      PolyPadPath(Arr(<<Str("M"), Num(90), Num(90), Str("L"), Num(110), Num(90),
                        Str("CARC"), Num(90), Num(110), Num(110)>>)) }

\* hole rotations in tenths of a degree: the four quarter turns, -90, 450,
\* 360, 45 and 90.5 degrees
HoleRotations == {0, 900, 1800, 2700, 0 - 900, 4500, 3600, 450, 905}

PadHoles ==
    { [hole |-> JsonNull, hole_rotation |-> Opt(FALSE, 0)],
      [hole |-> JsonNull, hole_rotation |-> Opt(TRUE, 450)] }
    \cup { [hole |-> JsonArray(<<Str(shape), Num(12), Num(6)>>), hole_rotation |-> r] :
             shape \in {"ROUND", "SLOT"},
             r \in {Opt(FALSE, 0)} \cup {Opt(TRUE, t) : t \in HoleRotations} }
    \cup { [hole |-> JsonArray(<<Str("SQUARE"), Num(12), Num(6)>>),
         hole_rotation |-> Opt(FALSE, 0)] }

Pads ==
    { [layer |-> l, num |-> "1", center_x |-> 100, center_y |-> 100,
       rotation |-> 0, hole |-> Opt(TRUE, h.hole), path |-> Opt(TRUE, p),
       hole_offset_x |-> 0, hole_offset_y |-> 0,
       hole_rotation |-> h.hole_rotation,
       top_solder_expansion |-> Opt(FALSE, 0),
       top_paste_expansion |-> Opt(FALSE, 0)] :
        l \in {Layer("MULTI", <<"Multi">>), Layer("TOP", <<"Top">>)},
        h \in PadHoles, p \in PadPaths }

Vias ==
    { [name |-> "", center_x |-> 10, center_y |-> 20, hole_diameter |-> 12,
       via_diameter |-> 24, top_solder_expansion |-> e] :
        e \in {Opt(FALSE, 0), Opt(TRUE, 4)} }

Strings ==
    { [layer |-> l, text |-> "U1", pos_x |-> 10, pos_y |-> 20, angle |-> 0,
       font_size |-> 40, is_bold |-> FALSE, is_italic |-> FALSE, origin |-> o] :
        l \in FootprintLayers, o \in {1, 2, 4, 5, 7, 9} }

\* a surface pad and a pad with a round hole, met in either order
PlainPads ==
    { x \in Pads : /\ x.path.v = SizedPadPath("OVAL", <<>>)
                   /\ x.hole_rotation = Opt(FALSE, 0)
                   /\ \/ x.layer.layer_type = "TOP" /\ is_null(x.hole.v)
                      \/ /\ x.layer.layer_type = "MULTI" /\ is_array(x.hole.v)
                         /\ is_str(x.hole.v.a[1], "ROUND") }

\* fills that cut the board: a circle, a line, a plain rectangle, both
MechanicalFills ==
    { x \in Fills : /\ x.layer.layer_type = "MULTI"
                    /\ x.path \in {CirclePath, LinePath, RectanglePath(0, <<>>),
                                   Arr(<<LinePath, CirclePath>>)} }

EasyEDAFootprintOf(polygons, fills, pads, vias, strings) ==
    [polygons |-> polygons, fills |-> fills, pads |-> pads, vias |-> vias,
     strings |-> strings]

\* the EasyEDA footprints translated: one polygon, one fill, one pad, one
\* via or one string; a pad after a polygon on the silk screen; two pads in
\* either order; a pad after a cut-out; a cut-out, two pads and a via
EasyEDAFootprints ==
    { EasyEDAFootprintOf(<<e>>, <<>>, <<>>, <<>>, <<>>) : e \in Polygons }
    \cup { EasyEDAFootprintOf(<<>>, <<e>>, <<>>, <<>>, <<>>) : e \in Fills }
    \cup { EasyEDAFootprintOf(<<>>, <<>>, <<e>>, <<>>, <<>>) : e \in Pads }
    \cup { EasyEDAFootprintOf(<<>>, <<>>, <<>>, <<e>>, <<>>) : e \in Vias }
    \cup { EasyEDAFootprintOf(<<>>, <<>>, <<>>, <<>>, <<e>>) : e \in Strings }
    \cup { EasyEDAFootprintOf(<<e>>, <<>>, <<q>>, <<>>, <<>>) :
             e \in {x \in Polygons : x.layer.layer_type = "TOP_SILK"},
             q \in {x \in Pads : x.hole_rotation = Opt(FALSE, 0)} }
    \cup { EasyEDAFootprintOf(<<>>, <<>>, <<q, r>>, <<>>, <<>>) :
             q \in PlainPads, r \in PlainPads }
    \cup { EasyEDAFootprintOf(<<>>, <<e>>, <<q>>, <<>>, <<>>) :
             e \in MechanicalFills, q \in PlainPads }
    \cup { EasyEDAFootprintOf(<<>>, <<e>>, <<q, r>>, <<v>>, <<>>) :
             e \in MechanicalFills, q \in PlainPads, r \in PlainPads, v \in Vias }

NoFootprint == EasyEDAFootprintOf(<<>>, <<>>, <<>>, <<>>, <<>>)

FootprintIdle ==
    /\ eda_footprint = NoFootprint
    /\ footprint = NewFootprint
    /\ fp_pc = "idle"

FootprintInit ==
    /\ eda_footprint \in EasyEDAFootprints
    /\ footprint = NewFootprint
    /\ fp_pc = "input"

\* main.rs: the footprint read from the component is converted
try_into ==
    /\ fp_pc = "input"
    /\ footprint' = EasyEDAFootprint_try_into(eda_footprint)
    /\ fp_pc' = IF footprint'.panic THEN "panic"
                ELSE IF footprint'.err # "none" THEN "err" ELSE "ok"
    /\ UNCHANGED eda_footprint


----------------------------------------------------------------------------
(* The token writer: KiCadParser::generate_tokens (kicad/syntax.rs 283-311) *)

\* a preference order that puts Start last
PreferenceOrder_StartLast(pref) ==
    CASE pref = "None" -> 0 [] pref = "End" -> 1 [] pref = "Start" -> 2

\* #[derive(Ord)] on PositionPreference (syntax.rs 125-130)
PreferenceOrder(pref) ==
    CASE pref = "Start" -> 0 [] pref = "None" -> 1 [] pref = "End" -> 2

\* one element put in its place in a sorted Vec: behind the elements that
\* are not greater, so that equal elements keep their order
InsertStable(sorted, x) ==
    LET n == Cardinality({i \in 1..Len(sorted) :
                 PreferenceOrder(sorted[i].pref) <= PreferenceOrder(x.pref)})
    IN  SubSeq(sorted, 1, n) \o <<x>> \o SubSeq(sorted, n + 1, Len(sorted))

RECURSIVE sort_by(_, _)
\* slice::sort_by, a stable sort, with the comparison of syntax.rs 306
sort_by(sorted, rest) ==
    IF rest = <<>> THEN sorted
    ELSE sort_by(InsertStable(sorted, Head(rest)), Tail(rest))

\* syntax.rs 291-297: the token of an argument, with its preference
ContentToken(argument) ==
    [tok |-> [kind |-> argument.kind, str |-> argument.str, num |-> argument.num],
     pref |-> argument.pref]

RECURSIVE generate_tokens(_)
RECURSIVE ChildrenTokens(_)

\* syntax.rs 299-304: the tokens of the children, each with preference None
ChildrenTokens(children) ==
    IF children = <<>> THEN <<>>
    ELSE LET child_tokens == generate_tokens(Head(children))
         IN  [i \in 1..Len(child_tokens) |-> [tok |-> child_tokens[i], pref |-> "None"]]
             \o ChildrenTokens(Tail(children))

\* KiCadParser::generate_tokens (syntax.rs 283-311)
generate_tokens(this) ==
    LET content_tokens ==
            sort_by(<<>>, [i \in 1..Len(this.arguments) |->
                              ContentToken(this.arguments[i])]
                          \o ChildrenTokens(this.children))
    IN  <<OpenParen, Identifier(this.name)>>
        \o [i \in 1..Len(content_tokens) |-> content_tokens[i].tok]
        \o <<CloseParen>>

MaxArguments == 2

MaxChildren == 2

\* arguments of the three kinds and the three preferences, as the records'
\* serialize functions build them
GenArguments ==
    { SyntaxArgument("Identifier", <<"o", "v", "a", "l">>, NoNumber, "Start"),
      SyntaxArgument("QuotedString", <<"k">>, NoNumber, "Start"),
      SyntaxArgument("Identifier", <<"b">>, NoNumber, "None"),
      SyntaxArgument("Number", <<>>, Normalize(FALSE, 1, 0), "None"),
      SyntaxArgument("Identifier", <<"h", "i", "d", "e">>, NoNumber, "End"),
      SyntaxArgument("Number", <<>>, Normalize(FALSE, 2, 0), "End") }

GenArgumentLists == SeqsUpTo(GenArguments, MaxArguments)

\* children: nodes without arguments, with arguments of every preference,
\* and a node with a child of its own
GenChildren ==
    { SyntaxItem(<<"a", "t">>, <<>>, <<>>),
      SyntaxItem(<<"a", "t">>,
          <<SyntaxArgument("Number", <<>>, Normalize(FALSE, 1, 0), "None"),
            SyntaxArgument("Identifier", <<"h", "i", "d", "e">>, NoNumber, "End")>>,
          <<>>),
      SyntaxItem(<<"p", "a", "d">>,
          <<SyntaxArgument("Identifier", <<"h", "i", "d", "e">>, NoNumber, "End"),
            SyntaxArgument("QuotedString", <<"k">>, NoNumber, "Start")>>,
          <<SyntaxItem(<<"a", "t">>,
               <<SyntaxArgument("Number", <<>>, Normalize(FALSE, 2, 0), "End")>>,
               <<>>)>>) }

GenTrees ==
    { SyntaxItem(<<"f", "p">>, a, c) :
        a \in GenArgumentLists, c \in SeqsUpTo(GenChildren, MaxChildren) }

GenerateIdle ==
    /\ tree = NoItem
    /\ generated = <<>>
    /\ gen_pc = "idle"

\* main.rs 199 and 210: the tree of a record that is to be written
GenerateInit ==
    /\ tree \in GenTrees
    /\ generated = <<>>
    /\ gen_pc = "tree"

\* main.rs 200 and 211: the tokens of the tree
GenerateTokens ==
    /\ gen_pc = "tree"
    /\ generated' = generate_tokens(tree)
    /\ gen_pc' = "generated"
    /\ UNCHANGED tree

-----------------------------------------------------------------------------
(* The line decoder: SymbolElement::parse_line (easyeda/symbol.rs) over    *)
(* JsonArrayReader (easyeda/json_reader.rs).                               *)
(* A line is a text serde_json turns down, or the JSON value it reads.     *)
(* An f32 is carried as the number that was read.                          *)

JsonBool(b) == [t |-> "Bool", s |-> "", n |-> (IF b THEN 1 ELSE 0), repr |-> "none"]
JsonObject(o) == [t |-> "Object", s |-> "", n |-> 0, repr |-> "none", o |-> o]

\* serde_json::Value::as_str, as_f64, as_u64, as_array
as_str(v) == IF is_string(v) THEN Opt(TRUE, v.s) ELSE Opt(FALSE, "")
as_f64(v) == IF is_number(v) THEN Opt(TRUE, v.n) ELSE Opt(FALSE, 0)
as_u64(v) == IF is_number(v) /\ v.repr = "PosInt" THEN Opt(TRUE, v.n) ELSE Opt(FALSE, 0)
as_array(v) == IF is_array(v) THEN Opt(TRUE, v.a) ELSE Opt(FALSE, <<>>)

\* value["key"]: Null unless the value is an object that has the key
IndexKey(v, key) ==
    IF v.t = "Object" /\ key \in DOMAIN v.o THEN v.o[key] ELSE JsonNull

\* json_reader.rs 12-14, 92-94, 96-98
JsonArrayReader(array) == [array |-> array, index |-> 0]
can_read(self) == self.index < Len(self.array)
remaining(self) == Len(self.array) - self.index

\* `self.index += 1; self.array[self.index - 1]`: the reader after the
\* step, with what the read returned; the index past the end panics
ReadStep(self, v) == [panic |-> FALSE, reader |-> [self EXCEPT !.index = @ + 1], v |-> v]
OutOfBounds(self) ==
    [panic |-> TRUE, reader |-> [self EXCEPT !.index = @ + 1], v |-> Opt(FALSE, FALSE)]
Current(self) == self.array[self.index + 1]

\* json_reader.rs 16-19
read_string(self) ==
    IF ~can_read(self) THEN OutOfBounds(self)
    ELSE ReadStep(self, as_str(Current(self)))

\* json_reader.rs 21-24: `n as u8` keeps the low eight bits
read_u8(self) ==
    IF ~can_read(self) THEN OutOfBounds(self)
    ELSE LET n == as_u64(Current(self))
         IN  ReadStep(self, IF n.some THEN Opt(TRUE, n.v % 256) ELSE n)

\* json_reader.rs 36-39
read_u64(self) ==
    IF ~can_read(self) THEN OutOfBounds(self)
    ELSE ReadStep(self, as_u64(Current(self)))

\* json_reader.rs 61-64
read_f32(self) ==
    IF ~can_read(self) THEN OutOfBounds(self)
    ELSE ReadStep(self, as_f64(Current(self)))

\* json_reader.rs 71-79: a boolean, or the number 1 for true
read_bool(self) ==
    IF ~can_read(self) THEN OutOfBounds(self)
    ELSE LET value == Current(self)
             n == as_u64(value)
         IN  ReadStep(self,
                 IF value.t = "Bool" THEN Opt(TRUE, value.n = 1)
                 ELSE IF n.some THEN Opt(TRUE, n.v = 1)
                 ELSE Opt(FALSE, FALSE))

\* json_reader.rs 81-84
read_value(self) ==
    IF ~can_read(self) THEN OutOfBounds(self)
    ELSE ReadStep(self, Opt(TRUE, Current(self)))

\* symbol.rs 495-500
PinShape == 0..3

\* json_reader.rs 86-90: the index is stepped here and again in read_u64,
\* so one element is passed over; a number that is no variant panics
read_enum(self) ==
    LET r == read_u64([self EXCEPT !.index = @ + 1])
    IN  IF ~r.panic /\ r.v.some /\ r.v.v \notin PinShape
        THEN [r EXCEPT !.panic = TRUE]
        ELSE r

\* slice::chunks(n) and slice::windows(n)
RECURSIVE chunks(_, _)
chunks(a, n) ==
    IF a = <<>> THEN <<>>
    ELSE IF Len(a) <= n THEN <<a>>
    ELSE <<SubSeq(a, 1, n)>> \o chunks(SubSeq(a, n + 1, Len(a)), n)

windows(a, n) ==
    [i \in 1..(IF Len(a) >= n THEN Len(a) - n + 1 ELSE 0) |-> SubSeq(a, i, i + n - 1)]

\* `(a[0].as_f64().unwrap(), a[1].as_f64().unwrap())` on one chunk or window
PairPanics(a) == Len(a) < 2 \/ ~is_number(a[1]) \/ ~is_number(a[2])
PairOf(a) == <<a[1].n, a[2].n>>

\* symbol.rs 722-728 (chunks) and 759-760 (windows): the point array
ReadPoints(self, overlapping) ==
    LET r == read_value(self)
        point_array == as_array(r.v.v)
        pairs == IF overlapping THEN windows(point_array.v, 2) ELSE chunks(point_array.v, 2)
    IN  IF r.panic THEN r
        ELSE IF ~point_array.some \/ \E i \in 1..Len(pairs) : PairPanics(pairs[i])
        THEN [r EXCEPT !.panic = TRUE]
        ELSE [r EXCEPT !.v = [i \in 1..Len(pairs) |-> PairOf(pairs[i])]]

\* one field of a struct literal: the read it makes, and whether the
\* Option it returns is unwrapped
Field(name, read, unwrap) == [name |-> name, read |-> read, unwrap |-> unwrap]

Unwrap(r) ==
    IF r.panic \/ ~r.v.some THEN [r EXCEPT !.panic = TRUE] ELSE [r EXCEPT !.v = r.v.v]

ReadField(self, f) ==
    LET r == CASE f.read = "string" -> read_string(self)
               [] f.read = "u8" -> read_u8(self)
               [] f.read = "f32" -> read_f32(self)
               [] f.read = "bool" -> read_bool(self)
               [] f.read = "value" -> read_value(self)
               [] f.read = "enum" -> read_enum(self)
               \* symbol.rs 657: an empty parent_id is None
               [] f.read = "non_empty" ->
                    (LET s == read_string(self)
                     IN  IF ~s.panic /\ s.v.some /\ s.v.v = ""
                         THEN [s EXCEPT !.v = Opt(FALSE, "")] ELSE s)
               \* symbol.rs 607
               [] f.read = "string_if_any" ->
                    IF can_read(self) THEN read_string(self)
                    ELSE [panic |-> FALSE, reader |-> self, v |-> Opt(FALSE, "")]
               \* symbol.rs 777: can_read() && read_bool().is_some_and(|b| b)
               [] f.read = "true_if_any" ->
                    IF can_read(self)
                    THEN (LET b == read_bool(self)
                          IN  [b EXCEPT !.v = Opt(TRUE, b.v.some /\ b.v.v)])
                    ELSE [panic |-> FALSE, reader |-> self, v |-> Opt(TRUE, FALSE)]
               \* symbol.rs 795: PinShape::None without a read
               [] f.read = "no_shape" ->
                    [panic |-> FALSE, reader |-> self, v |-> Opt(TRUE, 0)]
               [] f.read = "chunks" ->
                    (LET p == ReadPoints(self, FALSE)
                     IN  IF p.panic THEN p ELSE [p EXCEPT !.v = Opt(TRUE, p.v)])
               [] f.read = "windows" ->
                    (LET p == ReadPoints(self, TRUE)
                     IN  IF p.panic THEN p ELSE [p EXCEPT !.v = Opt(TRUE, p.v)])
    IN  IF r.panic THEN r
        ELSE IF f.unwrap THEN Unwrap(r)
        ELSE r

\* the fields of a struct literal are read in the order they are written
RECURSIVE ReadFields(_, _, _)
ReadFields(self, fields, acc) ==
    IF fields = <<>> THEN [panic |-> FALSE, reader |-> self, values |-> acc]
    ELSE LET r == ReadField(self, Head(fields))
         IN  IF r.panic THEN [panic |-> TRUE, reader |-> r.reader, values |-> acc]
             ELSE ReadFields(r.reader, Tail(fields),
                             Append(acc, [name |-> Head(fields).name, v |-> r.v]))

\* symbol.rs 573-817: the tags of the match
PropertyTypes ==
    {"DOCTYPE", "HEAD", "LINESTYLE", "FONTSTYLE", "PART", "ATTR", "RECT",
     "CIRCLE", "ELLIPSE", "POLY", "ARC", "BEZIER", "TEXT", "PIN", "OBJ"}

\* the values of reader.remaining() each arm lets through
ArrayLengths(property_type) ==
    CASE property_type = "DOCTYPE" -> {2}
      [] property_type = "HEAD" -> {1}
      [] property_type = "LINESTYLE" -> {5, 6}
      [] property_type = "FONTSTYLE" -> {11}
      [] property_type = "PART" -> {2}
      [] property_type = "ATTR" -> {11}
      [] property_type = "RECT" -> {10}
      [] property_type = "CIRCLE" -> {6}
      [] property_type = "ELLIPSE" -> {8}
      [] property_type = "POLY" -> {5}
      [] property_type = "ARC" -> {9}
      [] property_type = "BEZIER" -> {4}
      [] property_type = "TEXT" -> {6}
      [] property_type = "PIN" -> {10, 11}
      [] property_type = "OBJ" -> {10}

\* the struct literal of each arm but HEAD and PART
StructFields(property_type, param_count) ==
    CASE property_type = "DOCTYPE" ->
           <<Field("kind", "string", TRUE), Field("version", "string", TRUE)>>
      [] property_type = "LINESTYLE" ->
           <<Field("index_name", "string", TRUE), Field("stroke_color", "string", FALSE),
             Field("stroke_style", "u8", FALSE), Field("fill_color", "string", FALSE),
             Field("stroke_width", "f32", FALSE), Field("fill_style", "string_if_any", FALSE)>>
      [] property_type = "FONTSTYLE" ->
           <<Field("index_name", "string", TRUE), Field("fill_color", "string", FALSE),
             Field("color", "string", FALSE), Field("font_family", "string", FALSE),
             Field("font_size", "f32", FALSE), Field("is_italic", "bool", FALSE),
             Field("is_bold", "bool", FALSE), Field("is_underline", "bool", FALSE),
             Field("is_strikethrough", "bool", FALSE), Field("v_align", "u8", FALSE),
             Field("h_align", "u8", FALSE)>>
      [] property_type = "ATTR" ->
           <<Field("id", "string", TRUE), Field("parent_id", "non_empty", FALSE),
             Field("key", "string", TRUE), Field("value", "string", FALSE),
             Field("key_visible", "bool", FALSE), Field("value_visible", "bool", FALSE),
             Field("x", "f32", FALSE), Field("y", "f32", FALSE),
             Field("rotation", "f32", FALSE), Field("style_id", "string", FALSE),
             Field("is_locked", "bool", TRUE)>>
      [] property_type = "RECT" ->
           <<Field("id", "string", TRUE), Field("x", "f32", TRUE), Field("y", "f32", TRUE),
             Field("end_x", "f32", TRUE), Field("end_y", "f32", TRUE),
             Field("rx", "f32", TRUE), Field("ry", "f32", TRUE),
             Field("rotation", "f32", TRUE), Field("style_id", "string", FALSE),
             Field("is_locked", "bool", TRUE)>>
      [] property_type = "CIRCLE" ->
           <<Field("id", "string", TRUE), Field("cx", "f32", TRUE), Field("cy", "f32", TRUE),
             Field("radius", "f32", TRUE), Field("style_id", "string", FALSE),
             Field("is_locked", "bool", TRUE)>>
      [] property_type = "ELLIPSE" ->
           <<Field("id", "string", TRUE), Field("cx", "f32", TRUE), Field("cy", "f32", TRUE),
             Field("radius_x", "f32", TRUE), Field("radius_y", "f32", TRUE),
             Field("unknown", "value", TRUE), Field("style_id", "string", FALSE),
             Field("is_locked", "bool", TRUE)>>
      [] property_type = "POLY" ->
           <<Field("id", "string", TRUE), Field("points", "chunks", TRUE),
             Field("is_closed", "bool", TRUE), Field("style_id", "string", FALSE),
             Field("is_locked", "bool", TRUE)>>
      [] property_type = "ARC" ->
           <<Field("id", "string", TRUE), Field("x1", "f32", TRUE), Field("y1", "f32", TRUE),
             Field("x2", "f32", TRUE), Field("y2", "f32", TRUE),
             Field("x3", "f32", TRUE), Field("y3", "f32", TRUE),
             Field("style_id", "string", FALSE), Field("is_locked", "bool", TRUE)>>
      [] property_type = "BEZIER" ->
           <<Field("id", "string", TRUE), Field("control_points", "windows", TRUE),
             Field("style_id", "string", FALSE), Field("is_locked", "bool", TRUE)>>
      [] property_type = "TEXT" ->
           <<Field("id", "string", TRUE), Field("x", "f32", TRUE), Field("y", "f32", TRUE),
             Field("rotation", "f32", TRUE), Field("text", "string", TRUE),
             Field("style_id", "string", FALSE), Field("is_locked", "true_if_any", TRUE)>>
      [] property_type = "PIN" ->
           <<Field("id", "string", TRUE), Field("display", "bool", TRUE),
             Field("electric", "bool", FALSE), Field("x", "f32", TRUE),
             Field("y", "f32", TRUE), Field("length", "f32", TRUE),
             Field("rotation", "f32", TRUE), Field("pin_color", "string", FALSE),
             Field("pin_shape", IF param_count = 10 THEN "no_shape" ELSE "enum", TRUE),
             Field("is_locked", "bool", TRUE)>>
      [] property_type = "OBJ" ->
           <<Field("id", "string", TRUE), Field("file_name", "string", TRUE),
             Field("x", "f32", TRUE), Field("y", "f32", TRUE),
             Field("width", "f32", TRUE), Field("height", "f32", TRUE),
             Field("rotation", "f32", TRUE), Field("is_mirrored", "bool", TRUE),
             Field("data_url", "string", TRUE), Field("is_locked", "bool", TRUE)>>

\* what parse_line comes to: Ok(None), Ok(Some(element)), Err(error), or a panic
NoElement == [kind |-> "None", values |-> <<>>]
LineOk(v) == [pc |-> "ok", err |-> "", text |-> "", v |-> v]
LineErr(err, text) == [pc |-> "err", err |-> err, text |-> text, v |-> NoElement]
LinePanic == [pc |-> "panic", err |-> "", text |-> "", v |-> NoElement]

\* symbol.rs 584, 588-592: `value.to_string().parse::<u32>()` takes the
\* text of a non-negative integer, `parse::<f32>()` the text of a number;
\* the text of a string keeps its quotes and null is "null"
ParsesAsU32(v) == is_number(v) /\ v.repr = "PosInt"
ParsesAsF32(v) == is_number(v)

\* symbol.rs 583-596
ParseHead(reader) ==
    LET parameters == read_value(reader).v.v
    IN  IF ~ParsesAsU32(IndexKey(parameters, "symbolType"))
        THEN LineErr("FormatError", "symbolType")
        ELSE IF ~is_string(IndexKey(parameters, "version")) THEN LinePanic
        ELSE IF ~ParsesAsF32(IndexKey(parameters, "originX"))
        THEN LineErr("FormatError", "originX")
        ELSE IF ~ParsesAsF32(IndexKey(parameters, "originY"))
        THEN LineErr("FormatError", "originY")
        ELSE LineOk([kind |-> "HEAD",
                     values |-> <<[name |-> "symbol_type", v |-> IndexKey(parameters, "symbolType").n],
                                  [name |-> "version", v |-> IndexKey(parameters, "version").s],
                                  [name |-> "origin_x", v |-> IndexKey(parameters, "originX").n],
                                  [name |-> "origin_y", v |-> IndexKey(parameters, "originY").n]>>])

\* symbol.rs 630-648
ParsePart(reader) ==
    LET id == Unwrap(read_string(reader))
        bbox == as_array(IndexKey(read_value(id.reader).v.v, "BBOX"))
    IN  IF id.panic \/ ~bbox.some THEN LinePanic
        ELSE IF Len(bbox.v) < 4 \/ \E i \in 1..4 : ~is_number(bbox.v[i]) THEN LinePanic
        ELSE LineOk([kind |-> "PART",
                     values |-> <<[name |-> "id", v |-> id.v],
                                  [name |-> "bbox_x", v |-> bbox.v[1].n],
                                  [name |-> "bbox_y", v |-> bbox.v[2].n],
                                  [name |-> "bbox_end_x", v |-> bbox.v[3].n],
                                  [name |-> "bbox_end_y", v |-> bbox.v[4].n]>>])

\* symbol.rs 726: POLY becomes the POLYLINE variant
ElementVariant(property_type) == IF property_type = "POLY" THEN "POLYLINE" ELSE property_type

\* symbol.rs 572-819: the match on the tag
ParseElement(property_type, reader) ==
    IF property_type \notin PropertyTypes
    THEN LineErr("InvalidPropertyType", property_type)
    ELSE IF remaining(reader) \notin ArrayLengths(property_type)
    THEN LineErr("InvalidArrayLength", property_type)
    ELSE IF property_type = "HEAD" THEN ParseHead(reader)
    ELSE IF property_type = "PART" THEN ParsePart(reader)
    ELSE LET r == ReadFields(reader, StructFields(property_type, remaining(reader)), <<>>)
         IN  IF r.panic THEN LinePanic
             ELSE LineOk([kind |-> ElementVariant(property_type), values |-> r.values])

\* symbol.rs 561-820
SymbolElement_parse_line(text) ==
    IF ~text.json \/ ~is_array(text.value) THEN LineErr("JsonError", "")
    ELSE LET reader == JsonArrayReader(text.value.a)
             property_type == read_string(reader)
         IN  IF ~can_read(reader) THEN LineOk(NoElement)
             ELSE IF ~property_type.v.some
             THEN LineErr("InvalidPropertyType", "Invalid type")
             ELSE ParseElement(property_type.v.v, property_type.reader)

(* The lines handed to the decoder: one well-formed line of every tag,    *)
(* each with one element replaced by a value of another JSON type, with   *)
(* its last element dropped, and some lines that are not arrays of a      *)
(* known tag.                                                              *)

Float(n) == JsonNumber(n, "Float")
Text(value) == [json |-> TRUE, value |-> value]
NotJson == [json |-> FALSE, value |-> JsonNull]

WellFormed ==
    { <<Str("DOCTYPE"), Str("SYMBOL"), Str("1.1")>>,
      <<Str("HEAD"), JsonObject([symbolType |-> Num(2), version |-> Str("1.1"),
                                 originX |-> Num(0), originY |-> Float(5)])>>,
      <<Str("LINESTYLE"), Str("st1"), JsonNull, Num(300), JsonNull, Float(1)>>,
      <<Str("LINESTYLE"), Str("st1"), Str("red"), Num(0), JsonNull, Num(1), Str("none")>>,
      <<Str("FONTSTYLE"), Str("st2"), JsonNull, Str("blue"), JsonNull, Num(10),
        Num(0), JsonBool(TRUE), Num(1), JsonNull, Num(1), Num(2)>>,
      <<Str("PART"), Str("U.1"),
        JsonObject([BBOX |-> Arr(<<Num(0 - 10), Num(0 - 10), Num(10), Num(10)>>)])>>,
      <<Str("ATTR"), Str("e1"), Str(""), Str("Symbol"), Str("x"), JsonBool(FALSE),
        JsonBool(FALSE), Num(0), Num(0), Num(0), Str("st2"), Num(0)>>,
      <<Str("RECT"), Str("e2"), Num(0 - 10), Num(10), Num(10), Num(0 - 10), Num(0),
        Num(0), Num(0), Str("st1"), Num(0)>>,
      <<Str("CIRCLE"), Str("e3"), Num(0), Num(0), Float(5), Str("st1"), Num(0)>>,
      <<Str("ELLIPSE"), Str("e4"), Num(0), Num(0), Num(5), Num(3), Num(0), Str("st1"),
        Num(0)>>,
      <<Str("POLY"), Str("e5"), Arr(<<Num(0), Num(0), Num(10), Num(10)>>),
        JsonBool(FALSE), Str("st1"), Num(0)>>,
      <<Str("ARC"), Str("e6"), Num(0), Num(0), Num(5), Num(5), Num(10), Num(0),
        Str("st1"), Num(0)>>,
      <<Str("BEZIER"), Str("e7"), Arr(<<Num(0), Num(0), Num(5), Num(5)>>), Str("st1"),
        Num(0)>>,
      <<Str("TEXT"), Str("e8"), Num(0), Num(0), Num(90), Str("txt"), Str("st2")>>,
      <<Str("PIN"), Str("e9"), JsonBool(TRUE), JsonNull, Num(0 - 20), Num(0), Num(10),
        Num(0), JsonNull, Num(0), Num(0)>>,
      <<Str("PIN"), Str("e9"), JsonBool(TRUE), JsonNull, Num(0 - 20), Num(0), Num(10),
        Num(0), JsonNull, Num(0), Num(2), Num(0)>>,
      <<Str("OBJ"), Str("e10"), Str("f.png"), Num(0), Num(0), Num(10), Num(10), Num(0),
        Num(0), Str("data:"), Num(0)>>}

OtherTypes == {Str("x"), Num(7), JsonNull}

\* symbol.rs 612, 650, 782: the longest arrays are the tag and eleven elements
MaxLineLength == 12

Replaced(a, i, v) == [a EXCEPT ![i] = v]

Lines ==
    {NotJson, Text(Str("RECT")), Text(Arr(<<>>)), Text(Arr(<<Num(1)>>)),
     Text(Arr(<<Str("WIRE"), Str("e1")>>))}
    \cup { Text(Arr(a)) : a \in WellFormed }
    \cup { Text(Arr(SubSeq(a, 1, Len(a) - 1))) : a \in WellFormed }
    \cup { Text(Arr(Replaced(a[1], a[2], a[3]))) :
             a \in { x \in WellFormed \X (2..MaxLineLength) \X OtherTypes :
                        x[2] <= Len(x[1]) } }
    \cup { Text(Arr(<<Str("POLY"), Str("e5"), Arr(p), JsonBool(TRUE), Str("st1"), Num(0)>>)) :
             p \in {<<>>, <<Num(0), Num(0), Num(1)>>, <<Num(0), Str("1")>>} }
    \cup { Text(Arr(<<Str("BEZIER"), Str("e7"), Arr(p), Str("st1"), Num(0)>>)) :
             p \in {<<Str("1")>>, <<Num(0), Num(0), Num(1)>>, <<Num(0), Str("1")>>} }
    \cup { Text(Arr(<<Str("PART"), Str("U.1"), JsonObject([BBOX |-> b])>>)) :
             b \in {Arr(<<Num(0), Num(0), Num(1)>>), Str("box"),
                    Arr(<<Num(0), Num(0), Num(1), JsonNull>>)} }
    \cup { Text(Arr(<<Str("HEAD"), JsonObject(o)>>)) :
             o \in {[symbolType |-> Num(2)],
                    [symbolType |-> Str("2"), version |-> Str("1.1")],
                    [symbolType |-> Num(2), version |-> Str("1.1"), originX |-> Str("0")],
                    [symbolType |-> Num(2), version |-> Str("1.1"), originX |-> Num(0)]} }

LineIdle ==
    /\ line = NotJson
    /\ line_result = LineOk(NoElement)
    /\ line_pc = "idle"

\* symbol.rs 24-27: a line of the symbol's data string
LineInit ==
    /\ line \in Lines
    /\ line_result = LineOk(NoElement)
    /\ line_pc = "line"

\* symbol.rs 27: SymbolElement::parse_line(param)
parse_line ==
    /\ line_pc = "line"
    /\ line_result' = SymbolElement_parse_line(line)
    /\ line_pc' = "parsed"
    /\ UNCHANGED line

-----------------------------------------------------------------------------
(* The library tables: kicad/model/symbol_lib_table.rs and                 *)
(* kicad/model/footprint_lib_table.rs, and the two steps of main.rs that   *)
(* read and write them.  A table file is kept as the `lib` nodes of its    *)
(* tree; its `version` child is always written (symbol_lib_table.rs 23)    *)
(* and read (39).                                                          *)

KwTable ==
    [ lib |-> <<"l","i","b">>,
      name |-> <<"n","a","m","e">>,
      uri |-> <<"u","r","i">>,
      type |-> <<"t","y","p","e">>,
      options |-> <<"o","p","t","i","o","n","s">>,
      description |-> <<"d","e","s","c","r","i","p","t","i","o","n">>,
      descr |-> <<"d","e","s","c","r">>,
      disabled |-> <<"d","i","s","a","b","l","e","d">>,
      hidden |-> <<"h","i","d","d","e","n">> ]

\* library_name (main.rs 28) as the text of an argument
LibraryNameText == <<"l","i","b">>

\* `get_named_child(name).unwrap().arguments.first().unwrap().get_string()`
FirstString(syntax, name) ==
    LET c == get_named_child(syntax, name)
    IN  IF ~c.some \/ c.item.arguments = <<>>
        THEN [panic |-> TRUE, v |-> <<>>]
        ELSE [panic |-> FALSE, v |-> get_string(Head(c.item.arguments))]

\* `get_named_child(name).unwrap().arguments.first().is_some()`
FirstIsSome(syntax, name) ==
    LET c == get_named_child(syntax, name)
    IN  IF ~c.some THEN [panic |-> TRUE, v |-> FALSE]
        ELSE [panic |-> FALSE, v |-> c.item.arguments # <<>>]

QuotedChild(name, s) == from_single_argument(name, TextArgument("QuotedString", s))

\* the flags as written: symbol_lib_table.rs 57-63
FlagChildren(self) ==
    (IF self.disabled THEN <<SyntaxItem(KwTable.disabled, <<>>, <<>>)>> ELSE <<>>)
    \o (IF self.hidden THEN <<SyntaxItem(KwTable.hidden, <<>>, <<>>)>> ELSE <<>>)

\* symbol_lib_table.rs 48-70
SymbolLibTableItem_serialize(self) ==
    SyntaxItem(KwTable.lib, <<>>,
        <<QuotedChild(KwTable.name, self.name),
          QuotedChild(KwTable.uri, self.uri),
          QuotedChild(KwTable.type, self.lib_type),
          QuotedChild(KwTable.options, self.options),
          QuotedChild(KwTable.description, self.description)>>
        \o FlagChildren(self))

\* symbol_lib_table.rs 72-83
SymbolLibTableItem_deserialize(syntax) ==
    LET name == FirstString(syntax, KwTable.name)
        uri == FirstString(syntax, KwTable.uri)
        lib_type == FirstString(syntax, KwTable.type)
        options == FirstString(syntax, KwTable.options)
        description == FirstString(syntax, KwTable.descr)
        disabled == FirstIsSome(syntax, KwTable.disabled)
        hidden == FirstIsSome(syntax, KwTable.hidden)
    IN  [panic |-> name.panic \/ uri.panic \/ lib_type.panic \/ options.panic
                   \/ description.panic \/ disabled.panic \/ hidden.panic,
         name |-> name.v, uri |-> uri.v, lib_type |-> lib_type.v,
         options |-> options.v, description |-> description.v,
         disabled |-> disabled.v, hidden |-> hidden.v]

\* footprint_lib_table.rs 55-74
FootprintLibTableItem_serialize(self) ==
    SyntaxItem(KwTable.lib, <<>>,
        <<QuotedChild(KwTable.name, self.name),
          QuotedChild(KwTable.type, self.lib_type),
          QuotedChild(KwTable.uri, self.uri),
          QuotedChild(KwTable.options, self.options),
          QuotedChild(KwTable.descr, self.description)>>
        \o (IF self.disabled THEN <<SyntaxItem(KwTable.disabled, <<>>, <<>>)>> ELSE <<>>))

\* footprint_lib_table.rs 76-85
FootprintLibTableItem_deserialize(syntax) ==
    LET name == FirstString(syntax, KwTable.name)
        uri == FirstString(syntax, KwTable.uri)
        lib_type == FirstString(syntax, KwTable.type)
        options == FirstString(syntax, KwTable.options)
        description == FirstString(syntax, KwTable.descr)
    IN  [panic |-> name.panic \/ uri.panic \/ lib_type.panic \/ options.panic
                   \/ description.panic,
         name |-> name.v, uri |-> uri.v, lib_type |-> lib_type.v,
         options |-> options.v, description |-> description.v,
         disabled |-> get_named_child(syntax, KwTable.disabled).some]

\* symbol_lib_table.rs 37-45 and footprint_lib_table.rs 45-52: the `lib`
\* children, each deserialized; one panic is the panic of the whole
SymbolLibTable_deserialize(libs) ==
    LET items == [i \in 1..Len(libs) |-> SymbolLibTableItem_deserialize(libs[i])]
    IN  [panic |-> \E i \in 1..Len(items) : items[i].panic, libraries |-> items]

FootprintLibTable_deserialize(libs) ==
    LET items == [i \in 1..Len(libs) |-> FootprintLibTableItem_deserialize(libs[i])]
    IN  [panic |-> \E i \in 1..Len(items) : items[i].panic, libraries |-> items]

NoTable == [panic |-> FALSE, libraries |-> <<>>]

\* main.rs 232-240
NewSymbolLibTableItem ==
    [panic |-> FALSE, name |-> LibraryNameText,
     uri |-> <<"l","i","b",".","k","i","c","a","d","_","s","y","m">>,
     lib_type |-> <<"K","i","C","a","d">>, options |-> <<>>,
     description |-> <<"J","L","C">>, disabled |-> FALSE, hidden |-> FALSE]

\* main.rs 264-271
NewFootprintLibTableItem ==
    [panic |-> FALSE, name |-> LibraryNameText,
     uri |-> <<"l","i","b",".","p","r","e","t","t","y">>,
     lib_type |-> <<"K","i","C","a","d">>, options |-> <<>>,
     description |-> <<"J","L","C">>, disabled |-> FALSE]

HasLibrary(table) == \E i \in 1..Len(table.libraries) : table.libraries[i].name = LibraryNameText

\* main.rs 215-246: sym-lib-table, written only when the library is new
\* (read_ok: fs::read_to_string of an existing table returned Ok; ok:
\* fs::write returned Ok)
UpdateSymLibTable ==
    /\ pc = "sym_table"
    /\ \E read_ok \in BOOLEAN, ok \in BOOLEAN :
          IF fs.sym_table.exists /\ ~read_ok
          THEN Fail("err") /\ fs' = fs
          ELSE LET sym_lib_table ==
                       IF fs.sym_table.exists
                       THEN SymbolLibTable_deserialize(fs.sym_table.libraries)
                       ELSE NoTable
               IN  IF sym_lib_table.panic THEN Fail("panic") /\ fs' = fs
                   ELSE IF HasLibrary(sym_lib_table)
                   THEN pc' = "fp_table" /\ outcome' = outcome /\ fs' = fs
                   ELSE IF ok
                   THEN /\ fs' = [fs EXCEPT !.sym_table =
                                [exists |-> TRUE,
                                 libraries |->
                                    [i \in 1..(Len(sym_lib_table.libraries) + 1) |->
                                        SymbolLibTableItem_serialize(
                                            Append(sym_lib_table.libraries,
                                                   NewSymbolLibTableItem)[i])]]]
                        /\ pc' = "fp_table" /\ outcome' = outcome
                   ELSE Fail("err") /\ fs' = fs
    /\ UNCHANGED <<update, device_name, has_model, symbol_lib, fs_at_start,
                   imports>>

\* main.rs 248-279: fp-lib-table, then the import is complete
UpdateFpLibTable ==
    /\ pc = "fp_table"
    /\ \E read_ok \in BOOLEAN, ok \in BOOLEAN :
          IF fs.fp_table.exists /\ ~read_ok
          THEN Fail("err") /\ fs' = fs
          ELSE LET fp_lib_table ==
                       IF fs.fp_table.exists
                       THEN FootprintLibTable_deserialize(fs.fp_table.libraries)
                       ELSE NoTable
               IN  IF fp_lib_table.panic THEN Fail("panic") /\ fs' = fs
                   ELSE IF HasLibrary(fp_lib_table)
                   THEN Fail("ok") /\ fs' = fs
                   ELSE IF ok
                   THEN /\ fs' = [fs EXCEPT !.fp_table =
                                [exists |-> TRUE,
                                 libraries |->
                                    [i \in 1..(Len(fp_lib_table.libraries) + 1) |->
                                        FootprintLibTableItem_serialize(
                                            Append(fp_lib_table.libraries,
                                                   NewFootprintLibTableItem)[i])]]]
                        /\ Fail("ok")
                   ELSE Fail("err") /\ fs' = fs
    /\ UNCHANGED <<update, device_name, has_model, symbol_lib, fs_at_start,
                   imports>>

-----------------------------------------------------------------------------
(* The relaxed tree comparison: SyntaxItem::deep_equals (kicad/syntax.rs)  *)
(* as dev.rs 27 calls it on two trees.                                     *)

KwOpaque ==
    [ render_cache |-> <<"r","e","n","d","e","r","_","c","a","c","h","e">>,
      pad |-> <<"p","a","d">>,
      zone |-> <<"z","o","n","e">>,
      net |-> <<"n","e","t">> ]

\* the child names the comparison is said to pass over
OpaqueNames == {KwOpaque.render_cache, Kw.teardrop, Kw.thermal_bridge_angle}

\* a node of each opaque name
OpaqueNodes ==
    { SyntaxItem(KwOpaque.render_cache, <<TextArgument("QuotedString", <<"t">>)>>, <<>>),
      SyntaxItem(Kw.teardrop, <<>>, <<>>),
      SyntaxItem(Kw.thermal_bridge_angle, <<NumberArgument(Normalize(FALSE, 45, 0))>>, <<>>) }

\* the trees compared: a zone with a pad child, each with no or one opaque
\* child, and zones that differ in a net argument
ComparedPads ==
    { SyntaxItem(KwOpaque.pad, <<TextArgument("QuotedString", <<"1">>)>>, c) :
        c \in {<<>>} \cup { <<o>> : o \in OpaqueNodes } }

ComparedTrees ==
    { SyntaxItem(KwOpaque.zone, <<>>,
          <<SyntaxItem(KwOpaque.net, <<NumberArgument(Normalize(FALSE, n, 0))>>, <<>>)>>
          \o top \o <<p>>) :
        n \in {1, 2}, top \in {<<>>} \cup { <<o>> : o \in OpaqueNodes },
        p \in ComparedPads }

CompareIdle ==
    /\ left_item = NoItem
    /\ right_item = NoItem
    /\ matches = FALSE
    /\ eq_pc = "idle"

\* dev.rs 19-25: the written tree and the parsed tree
CompareInit ==
    /\ left_item \in ComparedTrees
    /\ right_item \in ComparedTrees
    /\ matches = FALSE
    /\ eq_pc = "trees"

\* dev.rs 27: let matches = item_ser.deep_equals(&item)
DeepEquals ==
    /\ eq_pc = "trees"
    /\ matches' = deep_equals(left_item, right_item)
    /\ eq_pc' = "compared"
    /\ UNCHANGED <<left_item, right_item>>

-----------------------------------------------------------------------------
(* The footprint decoder: EasyEDAFootprint::parse (easyeda/footprint.rs    *)
(* 42-160) over the decoded lines of a payload.  A line is the             *)
(* FootprintProperty that FootprintProperty::parse_line made of it.        *)

DoctypeLine(kind) == [property |-> "DOCTYPE", kind |-> kind]
CanvasLine == [property |-> "CANVAS"]
FillLine(id) == [property |-> "FILL", id |-> id, attributes |-> <<>>]
PolyLine(id, path_is_null) ==
    [property |-> "POLY", id |-> id, path_is_null |-> path_is_null, attributes |-> <<>>]
PadLine(id) == [property |-> "PAD", id |-> id, attributes |-> <<>>]
AttrLine(id, parent_id) == [property |-> "ATTR", id |-> id, parent_id |-> parent_id]

NoParent == "None"

\* HashMap::insert: a later element of the same id replaces the earlier
HashMapInsert(map, id, element) ==
    [k \in DOMAIN map \cup {id} |-> IF k = id THEN element ELSE map[k]]

EmptyHashMap == [k \in {} |-> CanvasLine]

PushAttribute(map, id, attribute) ==
    [map EXCEPT ![id].attributes = Append(@, attribute)]

\* the locals of parse before the first line (footprint.rs 43-59)
ParseLocals ==
    [panicked |-> FALSE, canvas |-> FALSE, fills |-> EmptyHashMap,
     polygons |-> EmptyHashMap, pads |-> EmptyHashMap, attributes |-> <<>>]

\* one turn of the loop over the lines (footprint.rs 71-137)
ParseProperty(locals, prop) ==
    IF locals.panicked THEN locals
    ELSE CASE prop.property = "DOCTYPE" ->
                 IF prop.kind = "FOOTPRINT" THEN locals
                 ELSE [locals EXCEPT !.panicked = TRUE]
           [] prop.property = "CANVAS" -> [locals EXCEPT !.canvas = TRUE]
           [] prop.property = "FILL" ->
                 [locals EXCEPT !.fills = HashMapInsert(@, prop.id, prop)]
           [] prop.property = "POLY" ->
                 IF ~prop.path_is_null
                 THEN [locals EXCEPT !.polygons = HashMapInsert(@, prop.id, prop)]
                 ELSE locals
           [] prop.property = "PAD" ->
                 [locals EXCEPT !.pads = HashMapInsert(@, prop.id, prop)]
           [] prop.property = "ATTR" ->
                 IF prop.parent_id = NoParent
                 THEN [locals EXCEPT !.attributes = Append(@, prop)]
                 ELSE IF prop.parent_id \in DOMAIN locals.fills
                 THEN [locals EXCEPT !.fills = PushAttribute(@, prop.parent_id, prop)]
                 ELSE IF prop.parent_id \in DOMAIN locals.polygons
                 THEN [locals EXCEPT !.polygons = PushAttribute(@, prop.parent_id, prop)]
                 ELSE IF prop.parent_id \in DOMAIN locals.pads
                 THEN [locals EXCEPT !.pads = PushAttribute(@, prop.parent_id, prop)]
                 ELSE [locals EXCEPT !.panicked = TRUE]

RECURSIVE ParseLines(_, _)
ParseLines(locals, lines) ==
    IF lines = <<>> THEN locals
    ELSE ParseLines(ParseProperty(locals, Head(lines)), Tail(lines))

ParsePanic == [status |-> "panic"]

\* EasyEDAFootprint::parse (footprint.rs 42-160)
parse(symbol_data) ==
    LET locals == ParseLines(ParseLocals, symbol_data)
    IN  IF locals.panicked \/ ~locals.canvas THEN ParsePanic
        ELSE [status |-> "ok", fills |-> locals.fills, polygons |-> locals.polygons,
              pads |-> locals.pads, attributes |-> locals.attributes]

\* the payloads decoded
MaxLines == 3

PayloadLines ==
    { DoctypeLine("FOOTPRINT"), DoctypeLine("SYMBOL"), CanvasLine,
      FillLine("e1"), PolyLine("e2", FALSE), PolyLine("e2", TRUE), PadLine("e3"),
      AttrLine("a1", "e1"), AttrLine("a1", "e2"), AttrLine("a1", "e3"),
      AttrLine("a1", NoParent) }

Payloads == UNION { [1..n -> PayloadLines] : n \in 0..MaxLines }

NotParsed == [status |-> "none"]

ParseIdle ==
    /\ payload = <<>>
    /\ parsed_footprint = NotParsed
    /\ parse_pc = "idle"

ParseInit ==
    /\ payload \in Payloads
    /\ parsed_footprint = NotParsed
    /\ parse_pc = "payload"

EasyEDAFootprint_parse ==
    /\ parse_pc = "payload"
    /\ parsed_footprint' = parse(payload)
    /\ parse_pc' = "parsed"
    /\ UNCHANGED payload

LastIdle == CompareIdle /\ ParseIdle

LaterIdle == FootprintIdle /\ GenerateIdle /\ LineIdle /\ LastIdle

----------------------------------------------------------------------------
(* The specifications *)

Init == ImportInit /\ SyntaxIdle /\ LayerIdle /\ SymbolIdle /\ PathIdle /\ RecordIdle /\ LaterIdle

Next ==
    \/ StartImport /\ UNCHANGED <<syntaxVars, layerVars, symbolVars, pathVars, recordVars, laterVars>>
    \/ FetchComponent /\ UNCHANGED <<syntaxVars, layerVars, symbolVars, pathVars, recordVars, laterVars>>
    \/ ConvertComponent /\ UNCHANGED <<syntaxVars, layerVars, symbolVars, pathVars, recordVars, laterVars>>
    \/ ReadSymbolLib /\ UNCHANGED <<syntaxVars, layerVars, symbolVars, pathVars, recordVars, laterVars>>
    \/ DownloadStepModel /\ UNCHANGED <<syntaxVars, layerVars, symbolVars, pathVars, recordVars, laterVars>>
    \/ WriteSymbolLib /\ UNCHANGED <<syntaxVars, layerVars, symbolVars, pathVars, recordVars, laterVars>>
    \/ WriteFootprint /\ UNCHANGED <<syntaxVars, layerVars, symbolVars, pathVars, recordVars, laterVars>>
    \/ UpdateSymLibTable /\ UNCHANGED <<syntaxVars, layerVars, symbolVars, pathVars, recordVars, laterVars>>
    \/ UpdateFpLibTable /\ UNCHANGED <<syntaxVars, layerVars, symbolVars, pathVars, recordVars, laterVars>>

Spec == Init /\ [][Next]_vars

InitSyntax == SyntaxInit /\ ImportIdle /\ LayerIdle /\ SymbolIdle /\ PathIdle /\ RecordIdle /\ LaterIdle

NextSyntax ==
    \/ Tokenize /\ UNCHANGED <<importVars, layerVars, symbolVars, pathVars, recordVars, laterVars>>
    \/ Parse /\ UNCHANGED <<importVars, layerVars, symbolVars, pathVars, recordVars, laterVars>>
    \/ Stringify /\ UNCHANGED <<importVars, layerVars, symbolVars, pathVars, recordVars, laterVars>>
    \/ Retokenize /\ UNCHANGED <<importVars, layerVars, symbolVars, pathVars, recordVars, laterVars>>

SpecSyntax == InitSyntax /\ [][NextSyntax]_vars

InitLayers == LayerInit /\ ImportIdle /\ SyntaxIdle /\ SymbolIdle /\ PathIdle /\ RecordIdle /\ LaterIdle

NextLayers ==
    \/ SerializeLayers /\ UNCHANGED <<importVars, syntaxVars, symbolVars, pathVars, recordVars, laterVars>>
    \/ DeserializeLayers /\ UNCHANGED <<importVars, syntaxVars, symbolVars, pathVars, recordVars, laterVars>>

SpecLayers == InitLayers /\ [][NextLayers]_vars

InitSymbol == SymbolInit /\ ImportIdle /\ SyntaxIdle /\ LayerIdle /\ PathIdle /\ RecordIdle /\ LaterIdle

NextSymbol ==
    ConvertSymbol /\ UNCHANGED <<importVars, syntaxVars, layerVars, pathVars, recordVars, laterVars>>

SpecSymbol == InitSymbol /\ [][NextSymbol]_vars

InitPath == PathInit /\ ImportIdle /\ SyntaxIdle /\ LayerIdle /\ SymbolIdle /\ RecordIdle /\ LaterIdle

NextPath ==
    parse_path_expression /\ UNCHANGED <<importVars, syntaxVars, layerVars, symbolVars, recordVars, laterVars>>

SpecPath == InitPath /\ [][NextPath]_vars

InitRecord == RecordInit /\ ImportIdle /\ SyntaxIdle /\ LayerIdle /\ SymbolIdle /\ PathIdle /\ LaterIdle

NextRecord ==
    \/ DeserializeItem /\ UNCHANGED <<importVars, syntaxVars, layerVars, symbolVars, pathVars, laterVars>>
    \/ SerializeRecord /\ UNCHANGED <<importVars, syntaxVars, layerVars, symbolVars, pathVars, laterVars>>
    \/ DeserializeAgain /\ UNCHANGED <<importVars, syntaxVars, layerVars, symbolVars, pathVars, laterVars>>

SpecRecord == InitRecord /\ [][NextRecord]_vars

InitSymbolTree == SymbolTreeInit /\ ImportIdle /\ SyntaxIdle /\ LayerIdle /\ SymbolIdle /\ PathIdle /\ LaterIdle

SpecSymbolTree == InitSymbolTree /\ [][NextRecord]_vars

InitFootprint == FootprintInit /\ ImportIdle /\ SyntaxIdle /\ LayerIdle /\ SymbolIdle /\ PathIdle /\ RecordIdle /\ GenerateIdle /\ LineIdle /\ LastIdle

NextFootprint ==
    try_into /\ UNCHANGED <<importVars, syntaxVars, layerVars, symbolVars, pathVars, recordVars, generateVars, lineVars, lastVars>>

SpecFootprint == InitFootprint /\ [][NextFootprint]_vars

InitGenerate == GenerateInit /\ ImportIdle /\ SyntaxIdle /\ LayerIdle /\ SymbolIdle /\ PathIdle /\ RecordIdle /\ FootprintIdle /\ LineIdle /\ LastIdle

NextGenerate ==
    GenerateTokens /\ UNCHANGED <<importVars, syntaxVars, layerVars, symbolVars, pathVars, recordVars, footprintVars, lineVars, lastVars>>

SpecGenerate == InitGenerate /\ [][NextGenerate]_vars

InitLine == LineInit /\ ImportIdle /\ SyntaxIdle /\ LayerIdle /\ SymbolIdle /\ PathIdle /\ RecordIdle /\ FootprintIdle /\ GenerateIdle /\ LastIdle

NextLine ==
    parse_line /\ UNCHANGED <<importVars, syntaxVars, layerVars, symbolVars, pathVars, recordVars, footprintVars, generateVars, lastVars>>

SpecLine == InitLine /\ [][NextLine]_vars

earlierVars == <<importVars, syntaxVars, layerVars, symbolVars, pathVars, recordVars,
                 footprintVars, generateVars, lineVars>>
EarlierIdle ==
    /\ ImportIdle /\ SyntaxIdle /\ LayerIdle /\ SymbolIdle /\ PathIdle /\ RecordIdle
    /\ FootprintIdle /\ GenerateIdle /\ LineIdle

InitCompare == CompareInit /\ EarlierIdle /\ ParseIdle

NextCompare == DeepEquals /\ UNCHANGED <<earlierVars, parseVars>>

SpecCompare == InitCompare /\ [][NextCompare]_vars

InitParse == ParseInit /\ EarlierIdle /\ CompareIdle

NextParse == EasyEDAFootprint_parse /\ UNCHANGED <<earlierVars, compareVars>>

SpecParse == InitParse /\ [][NextParse]_vars

-----------------------------------------------------------------------------
(* Claims about the records *)

\* C1: for every valid KiCad text s, the tree serialize(deserialize(parse(s)))
\* is tree-equal (deep_equals) to parse(s): reading s does not panic, and the
\* tree written from the record passes deep_equals against the parsed tree.
C1_TreeRoundTrip ==
    /\ rec_pc # "panic"
    /\ rec_pc \in {"serialized", "done", "panic_back"} => deep_equals(item_ser, item)

\* an fp_circle with (fill solid), no lock and a stroke without colour is
\* written back with (fill no), which deep_equals does not take for solid
C1_SolidFillWrittenAsNo ==
    /\ rec_pc = "serialized"
    /\ item.name = Kw.fp_circle
    /\ ~get_named_child(item, Kw.locked).some
    /\ ~get_named_child(get_named_child(item, Kw.stroke).item, Kw.color).some
    /\ get_named_child(item, Kw.fill).some
    /\ get_string(Head(get_named_child(item, Kw.fill).item.arguments)) = Kw.solid
    /\ get_string(Head(get_named_child(item_ser, Kw.fill).item.arguments)) = Kw.no
    /\ ~deep_equals(item_ser, item)

\* C2: for every record R obtained by deserializing a parsed KiCad text,
\* deserialize(serialize(R)) does not panic and is equal to R field by field.
C2_RecordRoundTrip ==
    rec_pc \in {"done", "panic_back"} => rec_pc = "done" /\ record_back = record

\* a zone fill read with hatch_smoothing_level Fillet and no island removal
\* mode comes back with no smoothing level and island removal NeverRemove
C2_SmoothingLevelBecomesIslandMode ==
    /\ rec_pc = "done"
    /\ record.type = "FootprintZoneFillSettings"
    /\ record.hatch_smoothing_level = Opt(TRUE, "Fillet")
    /\ ~record.island_removal_mode.some
    /\ ~record_back.hatch_smoothing_level.some
    /\ record_back.island_removal_mode = Opt(TRUE, "NeverRemove")

----------------------------------------------------------------------------
(* Claims about the import command *)

\* C6: when an import fails at any step, no library file (symbol library,
\* footprint, STEP model, either library table) has been created or modified.
C6_FailedImportWritesNothing ==
    outcome \in {"err", "panic"} => LibraryFiles(fs) = LibraryFiles(fs_at_start)

\* an import that returned an error after its STEP model was written
C6_FailedAfterStepWrite ==
    /\ outcome = "err"
    /\ fs.step # fs_at_start.step
    /\ fs.sym_lib = fs_at_start.sym_lib

----------------------------------------------------------------------------
(* Claims about the footprint translator *)

\* the footprint holds nothing but one pad
OnePad == eda_footprint.polygons = <<>> /\ eda_footprint.fills = <<>>
          /\ Len(eda_footprint.pads) = 1

\* a pad on a MULTI layer, without a hole, whose path is ["RECT", 40, 20]
RectPadOfThree ==
    /\ OnePad
    /\ eda_footprint.pads[1].layer.layer_type = "MULTI"
    /\ eda_footprint.pads[1].hole = Opt(TRUE, JsonNull)
    /\ eda_footprint.pads[1].path = Opt(TRUE, SizedPadPath("RECT", <<>>))

\* C11: a PAD whose path is the three-element array ["RECT", w, h], on a
\* MULTI layer and with a null hole, converts successfully to a pad of type
\* Smd and shape Rect of size (w x 0.0254, h x 0.0254): for w = 40, h = 20 and
\* centre (100, 100) the size is (1.016, 0.508) mm and the position
\* (2.54, -2.54) mm.
C11_RectPadConverts ==
    (fp_pc # "input" /\ RectPadOfThree) =>
        /\ fp_pc = "ok"
        /\ Len(footprint.pads) = 1
        /\ footprint.pads[1].pad_type = "Smd"
        /\ footprint.pads[1].pad_shape = "Rect"
        /\ footprint.pads[1].size = <<10160, 5080>>
        /\ footprint.pads[1].position.x = 25400
        /\ footprint.pads[1].position.y = 0 - 25400

\* the three-element RECT pad is turned down as an unsupported shape
C11_RectPadRejected ==
    /\ RectPadOfThree
    /\ fp_pc = "err"
    /\ footprint.err = "UnsupportedPadShape"

\* the JSON array p decodes to exactly one M followed by one L
DecodesToLine(p) ==
    /\ is_array(p) /\ p.a # <<>>
    /\ LET decoded == DecodePath(PreparePath(p.a).path, 1, <<>>)
       IN  /\ ~decoded.panic
           /\ Len(decoded.commands) = 2
           /\ decoded.commands[1].name = "MoveTo"
           /\ decoded.commands[2].name = "LineTo"

\* the footprint holds one polygon or one fill, on a layer the translator
\* draws on, and its path is one M followed by one L
OneOutlineLine ==
    /\ eda_footprint.pads = <<>>
    /\ \/ /\ Len(eda_footprint.polygons) = 1 /\ eda_footprint.fills = <<>>
          /\ DecodesToLine(eda_footprint.polygons[1].path)
          /\ get_kicad_layer(eda_footprint.polygons[1].layer).v.some
       \/ /\ Len(eda_footprint.fills) = 1 /\ eda_footprint.polygons = <<>>
          /\ DecodesToLine(eda_footprint.fills[1].path)
          /\ get_kicad_layer(eda_footprint.fills[1].layer).err = "none"

\* the footprint holds one custom pad whose POLY path is one M followed by
\* one L, and the pad is converted
OnePadLine ==
    /\ OnePad
    /\ eda_footprint.pads[1].path.v.a[1] = Str("POLY")
    /\ DecodesToLine(eda_footprint.pads[1].path.v.a[2])
    /\ fp_pc = "ok"

\* C12: a path that decodes to exactly one M followed by one L produces
\* exactly one line primitive and no polygon, for the top-level FILL and
\* POLY paths and equally for the POLY path of a custom pad, which goes
\* through the same classifier with the pad-anchor offset.
C12_MoveLineIsOneLine ==
    /\ (fp_pc # "input" /\ OneOutlineLine) =>
           Len(footprint.lines) = 1 /\ footprint.polygons = <<>>
    /\ OnePadLine =>
           /\ Len(footprint.pads[1].primitives.v.lines) = 1
           /\ footprint.pads[1].primitives.v.polygons = <<>>

\* the M and the L of a custom pad end as one polygon of two points
C12_PadLineBecomesPolygon ==
    /\ OnePadLine
    /\ footprint.pads[1].primitives.v.lines = <<>>
    /\ Len(footprint.pads[1].primitives.v.polygons) = 1
    /\ Len(footprint.pads[1].primitives.v.polygons[1].points) = 2

\* the footprint holds one pad with a round or slotted hole and a hole
\* rotation, and the pad converts when it has no hole
HoledPad ==
    /\ OnePad
    /\ LET pad == eda_footprint.pads[1]
       IN  /\ pad.hole.some /\ is_array(pad.hole.v)
           /\ pad.hole.v.a[1] \in {Str("SLOT"), Str("ROUND")}
           /\ pad.hole_rotation.some
           /\ ~Stopped(ConvertPad(NewFootprint, [pad EXCEPT !.hole = Opt(TRUE, JsonNull)]))

\* the drill of the converted pad has the diameter d and the width w
DrillIs(d, w) ==
    /\ fp_pc = "ok"
    /\ Len(footprint.pads) = 1
    /\ footprint.pads[1].drill.some
    /\ footprint.pads[1].drill.v.diameter = d * scale_factor
    /\ footprint.pads[1].drill.v.width = Opt(TRUE, w * scale_factor)

\* C18: for a pad with a hole and a hole rotation r (here in tenths of a
\* degree): r = 0 or 180 keeps the two hole parameters as given, r = 90 or
\* 270 swaps them, and every other value of r, negative values, values of 360
\* or more and non-integer values included, makes the conversion fail with
\* UnsupportedDrillRotation.
C18_DrillRotation ==
    (fp_pc # "input" /\ HoledPad) =>
        LET pad == eda_footprint.pads[1]
            r == pad.hole_rotation.v
            hole_param1 == pad.hole.v.a[2].n
            hole_param2 == pad.hole.v.a[3].n
        IN  IF r \in {0, 1800} THEN DrillIs(hole_param1, hole_param2)
            ELSE IF r \in {900, 2700} THEN DrillIs(hole_param2, hole_param1)
            ELSE fp_pc = "err" /\ footprint.err = "UnsupportedDrillRotation"

\* a hole rotation of -90 degrees is taken: the pad converts with the two
\* hole parameters swapped
C18_NegativeRotationSwaps ==
    /\ HoledPad
    /\ eda_footprint.pads[1].hole_rotation.v = 0 - 900
    /\ DrillIs(eda_footprint.pads[1].hole.v.a[3].n, eda_footprint.pads[1].hole.v.a[2].n)

\* C18, as the code has it: the rotation is first reduced to the whole
\* degrees of its absolute value modulo 360; a reduced rotation of 0 or 180
\* keeps the two hole parameters, 90 or 270 swaps them, and any other one
\* makes the conversion fail with UnsupportedDrillRotation of the reduced
\* rotation.
C18_ReducedDrillRotation ==
    (fp_pc # "input" /\ HoledPad) =>
        LET pad == eda_footprint.pads[1]
            r == pad.hole_rotation.v
            reduced == ((IF r < 0 THEN 0 - r ELSE r) \div 10) % 360
            hole_param1 == pad.hole.v.a[2].n
            hole_param2 == pad.hole.v.a[3].n
        IN  IF reduced \in {0, 180} THEN DrillIs(hole_param1, hole_param2)
            ELSE IF reduced \in {90, 270} THEN DrillIs(hole_param2, hole_param1)
            ELSE /\ fp_pc = "err"
                 /\ footprint.err = "UnsupportedDrillRotation"
                 /\ footprint.rot = reduced

\* the JSON array p holds an R command with a rotation or a corner radius
\* other than zero
HasAngledRectangle(p) ==
    /\ is_array(p) /\ p.a # <<>> /\ ~is_array(p.a[1])
    /\ LET decoded == DecodePath(PreparePath(p.a).path, 1, <<>>)
       IN  /\ ~decoded.panic
           /\ \E i \in 1..Len(decoded.commands) :
                 /\ decoded.commands[i].name = "Rectangle"
                 /\ \/ decoded.commands[i].params[5] # 0
                    \/ decoded.commands[i].params[6] # 0

\* the footprint holds one polygon or one fill with such a rectangle, on a
\* layer the translator draws on
OneAngledRectangle ==
    /\ eda_footprint.pads = <<>>
    /\ \/ /\ Len(eda_footprint.polygons) = 1 /\ eda_footprint.fills = <<>>
          /\ HasAngledRectangle(eda_footprint.polygons[1].path)
          /\ get_kicad_layer(eda_footprint.polygons[1].layer).v.some
       \/ /\ Len(eda_footprint.fills) = 1 /\ eda_footprint.polygons = <<>>
          /\ HasAngledRectangle(eda_footprint.fills[1].path)
          /\ get_kicad_layer(eda_footprint.fills[1].layer).err = "none"

\* C19: a path containing an R rectangle command with non-zero rotation or
\* non-zero corner radius makes the footprint conversion return an
\* UnsupportedShape error to its caller; the conversion does not abort and
\* yields no footprint.
C19_AngledRectangleIsAnError ==
    (fp_pc # "input" /\ OneAngledRectangle) =>
        fp_pc = "err" /\ footprint.err = "UnsupportedShape"

\* the conversion of a rotated or rounded rectangle ends in a panic
C19_AngledRectangleAborts ==
    /\ OneAngledRectangle
    /\ fp_pc = "panic"

----------------------------------------------------------------------------
(* Claims about the token writer *)

\* the tokens of the arguments of the given preference, in their order
ArgumentTokens(arguments, pref) ==
    LET band == SelectSeq(arguments, LAMBDA a : a.pref = pref)
    IN  [i \in 1..Len(band) |-> ContentToken(band[i]).tok]

RECURSIVE BandedTokens(_)
RECURSIVE BandedChildren(_)
\* the token streams of the children, whole and one after the other
BandedChildren(children) ==
    IF children = <<>> THEN <<>>
    ELSE BandedTokens(Head(children)) \o BandedChildren(Tail(children))

\* OPEN, the name, the Start arguments, the None arguments, the children,
\* the End arguments, CLOSE
BandedTokens(node) ==
    <<OpenParen, Identifier(node.name)>>
    \o ArgumentTokens(node.arguments, "Start")
    \o ArgumentTokens(node.arguments, "None")
    \o BandedChildren(node.children)
    \o ArgumentTokens(node.arguments, "End")
    \o <<CloseParen>>

\* C13: generate_tokens(N) emits OPEN, the name identifier, then every
\* Start-preference argument of N, then every None-preference argument of N
\* followed by the complete token streams of N's children, then every
\* End-preference argument of N, then CLOSE; inside each group the arguments
\* and the children keep their order in N, and the tokens of one child are
\* never separated by tokens of N or of another child.
C13_TokensInBands ==
    gen_pc = "generated" => generated = BandedTokens(tree)

\* a tree whose End argument comes first and whose Start argument comes
\* last, with two children of which the first has arguments of its own
C13_Witness ==
    /\ gen_pc = "generated"
    /\ Len(tree.arguments) = 2
    /\ tree.arguments[1].pref = "End" /\ tree.arguments[2].pref = "Start"
    /\ Len(tree.children) = 2
    /\ Len(tree.children[1].arguments) = 2
    /\ tree.children[1].children # <<>>

----------------------------------------------------------------------------
(* Claims about the order of the children *)

\* what tells a child from its siblings: its name and its arguments' texts
ChildLabel(node) ==
    <<node.name, [i \in 1..Len(node.arguments) |-> get_string(node.arguments[i])]>>

RECURSIVE SameChildOrder(_, _)
\* the two nodes have the same children in the same order, and so have
\* their children
SameChildOrder(a, b) ==
    /\ Len(a.children) = Len(b.children)
    /\ \A i \in 1..Len(a.children) :
          /\ ChildLabel(a.children[i]) = ChildLabel(b.children[i])
          /\ SameChildOrder(a.children[i], b.children[i])

\* the children's names of the first unit of a symbol node
UnitChildNames(node) ==
    LET unit == get_named_child(node, KwSymbol.symbol).item
    IN  [i \in 1..Len(unit.children) |-> unit.children[i].name]

\* C14: child order is preserved exactly through the read-write pipeline:
\* for every node of parse(s) the children of the corresponding node in
\* serialize(deserialize(parse(s))) appear in the same relative order, also
\* when children of different kinds (rectangles and polylines) are
\* interleaved in the file.
C14_ChildOrderKept ==
    rec_pc \in {"serialized", "done"} => SameChildOrder(item, item_ser)

\* a unit read as rectangle, polyline is written as polyline, rectangle
C14_ShapesRegrouped ==
    /\ rec_pc = "serialized"
    /\ item.name = KwSymbol.symbol
    /\ UnitChildNames(item) = <<KwSymbol.rectangle, KwSymbol.polyline>>
    /\ UnitChildNames(item_ser) = <<KwSymbol.polyline, KwSymbol.rectangle>>

----------------------------------------------------------------------------
(* Claims about the names of the parsed nodes *)

RECURSIVE AllNamed(_)
\* no node of the tree has the empty name
AllNamed(node) ==
    /\ node.name # EmptyName
    /\ \A i \in 1..Len(node.children) : AllNamed(node.children[i])

\* C15: after parse_syntax_item completes on a token sequence it accepts, no
\* node of the returned tree has an empty name; this includes nodes whose
\* first token after OPEN is a quoted string, a number or a CLOSE.
C15_EveryNodeNamed ==
    (syn_pc \notin {"idle", "input", "tokenized"} /\ ~parsed.panic) =>
        AllNamed(parsed.item)

\* the parser returns a node without a name for an OPEN that is followed
\* by a quoted string, a number or a CLOSE
C15_UnnamedNodeReturned ==
    /\ syn_pc = "parsed"
    /\ ~parsed.panic
    /\ Len(tokens.tokens) >= 2
    /\ tokens.tokens[1].kind = "OpenParen"
    /\ tokens.tokens[2].kind \in {"QuotedString", "Number", "CloseParen"}
    /\ parsed.item.name = EmptyName

----------------------------------------------------------------------------
(* Claims about the written layer list *)

\* the texts of the arguments of the written layers node
WrittenLayers == [i \in 1..Len(layers_item.arguments) |-> layers_item.arguments[i].str]

\* the list of a pad through a board with two inner layers
TwoInnerLayers == <<"FMask", "BMask", "FCu", "In1Cu", "In2Cu", "BCu">>

\* C16: serializing the layer list [F.Mask, B.Mask, F.Cu, In1.Cu, In2.Cu,
\* B.Cu] yields a layers node whose arguments are exactly the six explicit
\* names F.Mask B.Mask F.Cu In1.Cu In2.Cu B.Cu, with no `*.` token.
C16_SixExplicitNames ==
    (lay_pc # "input" /\ layer_list = TwoInnerLayers) =>
        WrittenLayers = [i \in 1..6 |-> to_string(TwoInnerLayers[i])]

\* C16, as the code has it: the list is written as *.Mask F.Cu In1.Cu
\* In2.Cu B.Cu, the two mask layers being every layer named Mask.
C16_MaskCompacted ==
    (lay_pc # "input" /\ layer_list = TwoInnerLayers) =>
        WrittenLayers = << <<"*", ".", "M", "a", "s", "k">>,
                           <<"F", ".", "C", "u">>, <<"I", "n", "1", ".", "C", "u">>,
                           <<"I", "n", "2", ".", "C", "u">>, <<"B", ".", "C", "u">> >>

C16_Witness ==
    /\ lay_pc = "serialized"
    /\ layer_list = TwoInnerLayers
    /\ Len(layers_item.arguments) = 5

\* the part of a layer's name after the dot
SuffixOf(l) == SplitOn(to_string(l), ".")[2]

\* a written argument of the form *.X, and its X
IsStar(w) == Len(w) > 2 /\ w[1] = "*" /\ w[2] = "."
StarSuffix(w) == SubSeq(w, 3, Len(w))

\* X is the suffix of a front layer F.X and of a back layer B.X
HasFrontAndBack(X) ==
    /\ \E l \in Range(PcbLayer) : to_string(l) = <<"F", ".">> \o X
    /\ \E l \in Range(PcbLayer) : to_string(l) = <<"B", ".">> \o X

\* the written argument w stands for the layer l
Represents(w, l) ==
    \/ w = to_string(l)
    \/ IsStar(w) /\ StarSuffix(w) = SuffixOf(l)

\* the list names no layer twice
NoLayerTwice == Cardinality(Range(layer_list)) = Len(layer_list)

\* C17: serializing a layer list emits a *.X token only for a suffix X that
\* has both a front layer F.X and a back layer B.X, and only when every
\* PcbLayer with suffix X is in the list; every other layer of the list is
\* emitted under its explicit name, and each layer of the list is
\* represented exactly once in the output.
C17_StarOnlyForFrontAndBack ==
    (lay_pc # "input" /\ NoLayerTwice) =>
        /\ \A i \in 1..Len(WrittenLayers) :
              IsStar(WrittenLayers[i]) =>
                  /\ HasFrontAndBack(StarSuffix(WrittenLayers[i]))
                  /\ \A l \in Range(PcbLayer) :
                        SuffixOf(l) = StarSuffix(WrittenLayers[i])
                            => l \in Range(layer_list)
        /\ \A l \in Range(layer_list) :
              Cardinality({i \in 1..Len(WrittenLayers) :
                              Represents(WrittenLayers[i], l)}) = 1

\* the list that holds Edge.Cuts alone is written as *.Cuts
C17_EdgeCutsCompacted ==
    /\ lay_pc = "serialized"
    /\ layer_list = <<"EdgeCuts">>
    /\ WrittenLayers = << <<"*", ".", "C", "u", "t", "s">> >>


-----------------------------------------------------------------------------
(* Claims about the line decoder *)

\* the line is an array of the tag RECT and ten more elements
IsRectLine ==
    /\ line.json
    /\ is_array(line.value)
    /\ Len(line.value.a) = 11
    /\ is_str(line.value.a[1], "RECT")

\* one of the seven numbers of the rectangle (x, y, end_x, end_y, rx, ry,
\* rotation) is a string
TextForANumber == \E i \in 3..9 : is_string(line.value.a[i])

\* C20: decoding a line that has a known tag and the required number of
\* elements, but a string where a number is expected, returns a decoding
\* error to the caller; the decoder does not abort.
C20_WrongTypeIsAnError ==
    (line_pc = "parsed" /\ IsRectLine /\ TextForANumber)
        => line_result.pc = "err"

\* a RECT line of the right length with a string for a number has been
\* decoded, and the decoder panicked on the unwrap of the read
C20_WrongTypePanics ==
    /\ line_pc = "parsed"
    /\ IsRectLine
    /\ TextForANumber
    /\ line_result.pc = "panic"


-----------------------------------------------------------------------------
(* Claims about repeated imports *)

\* the symbol library on disk holds the device of the running import
AlreadyImported == fs.sym_lib.exists /\ Contains(fs.sym_lib.symbols, device_name)

\* C29: importing a component whose symbol id is already in the symbol
\* library, without --update, fails and leaves the symbol library, the
\* footprint, the STEP model and both library tables unchanged; nothing is
\* written before the duplicate check.
C29_DuplicateImportWritesNothing ==
    [][(pc = "read_sym_lib" /\ ~update /\ AlreadyImported)
          => /\ LibraryFiles(fs) = LibraryFiles(fs_at_start)
             /\ fs' = fs
             /\ pc' = "idle"
             /\ outcome' \in {"err", "panic"}]_vars

\* a second import of a device the library holds, without --update, has
\* ended in an error with every file as it was
C29_DuplicateImportRejected ==
    /\ pc = "idle"
    /\ imports = 2
    /\ ~update
    /\ AlreadyImported
    /\ outcome = "err"
    /\ LibraryFiles(fs) = LibraryFiles(fs_at_start)

\* the import in progress has written its footprint, so it is past every
\* step but the two library tables
PastFootprint ==
    /\ device_name \in fs.footprints
    /\ device_name \notin fs_at_start.footprints

\* C27: after a first import into a project without library tables, the
\* tables it wrote are read back without failure by the next import: the
\* sym-lib-table and the fp-lib-table on disk can always be deserialized.
C27_WrittenTablesAreReadBack ==
    /\ fs.sym_table.exists => ~SymbolLibTable_deserialize(fs.sym_table.libraries).panic
    /\ fs.fp_table.exists => ~FootprintLibTable_deserialize(fs.fp_table.libraries).panic

\* the second import, of a device the library did not hold, found both
\* tables of the first import, wrote its footprint and then panicked
C27_SecondImportPanics ==
    /\ pc = "idle"
    /\ imports = 2
    /\ fs_at_start.sym_table.exists
    /\ fs_at_start.fp_table.exists
    /\ ~Contains(fs_at_start.sym_lib.symbols, device_name)
    /\ PastFootprint
    /\ outcome = "panic"


-----------------------------------------------------------------------------
(* Claims about the array reader *)

\* the line is an array of the tag PIN and eleven more elements
IsLongPinLine ==
    /\ line.json
    /\ is_array(line.value)
    /\ Len(line.value.a) = 12
    /\ is_str(line.value.a[1], "PIN")

\* the reader of the line after the tag and the eight fields up to the pin
\* colour have been read
AfterPinColour == [array |-> line.value.a, index |-> 9]

\* the field of the name in a decoded element
FieldValue(element, name) ==
    LET i == CHOOSE k \in 1..Len(element.values) : element.values[k].name = name
    IN  element.values[i].v

\* C30: every read of JsonArrayReader, read_enum included, consumes exactly
\* one element and returns the element at the cursor; the pin shape of an
\* 11-argument PIN line is the element right after the pin colour.
C30_EnumReadTakesOneElement ==
    (line_pc = "parsed" /\ IsLongPinLine /\ line_result.pc = "ok")
        => /\ read_enum(AfterPinColour).reader.index = AfterPinColour.index + 1
           /\ remaining(read_enum(AfterPinColour).reader) = remaining(AfterPinColour) - 1
           /\ FieldValue(line_result.v, "pin_shape") = line.value.a[10].n

\* an 11-argument PIN line has been decoded; the element after the pin
\* colour was passed over and the pin shape is the one after it
C30_PinShapeFromSecondElement ==
    /\ line_pc = "parsed"
    /\ IsLongPinLine
    /\ line_result.pc = "ok"
    /\ read_enum(AfterPinColour).reader.index = AfterPinColour.index + 2
    /\ is_number(line.value.a[10])
    /\ line.value.a[10].n # line.value.a[11].n
    /\ FieldValue(line_result.v, "pin_shape") = line.value.a[11].n


-----------------------------------------------------------------------------
(* Claims about the relaxed comparison                                     *)

RECURSIVE WithoutOpaque(_)
\* a tree with every render_cache, teardrop and thermal_bridge_angle node
\* removed, at any depth
WithoutOpaque(tree_item) ==
    LET kept == SelectSeq(tree_item.children, LAMBDA c : c.name \notin OpaqueNames)
    IN  SyntaxItem(tree_item.name, tree_item.arguments,
                   [i \in 1..Len(kept) |-> WithoutOpaque(kept[i])])

\* C25: the comparison gives the same verdict on two trees as on the same
\* two trees with their render_cache, teardrop and thermal_bridge_angle
\* nodes removed at every depth: the opaque nodes of either side are ignored
C25_OpaqueNodesIgnoredOnBothSides ==
    eq_pc = "compared" =>
        matches = deep_equals(WithoutOpaque(left_item), WithoutOpaque(right_item))

\* a teardrop child on the left-hand tree alone makes two otherwise equal
\* trees compare unequal
C25_LeftTeardropCounts ==
    /\ eq_pc = "compared"
    /\ left_item # right_item
    /\ WithoutOpaque(left_item) = right_item
    /\ \E i \in 1..Len(left_item.children) : left_item.children[i].name = Kw.teardrop
    /\ ~matches

-----------------------------------------------------------------------------
(* Claims about the footprint decoder                                      *)

\* line i is an ATTR whose parent_id is the id of line j, a FILL, POLY or PAD
IsAttrOf(lines, i, j) ==
    /\ lines[i].property = "ATTR"
    /\ lines[j].property \in {"FILL", "POLY", "PAD"}
    /\ lines[i].parent_id = lines[j].id

Exchanged(lines, i, j) ==
    [k \in 1..Len(lines) |-> IF k = i THEN lines[j] ELSE IF k = j THEN lines[i] ELSE lines[k]]

\* C21: decoding a payload comes to the same outcome when an ATTR line and
\* the line of the FILL, POLY or PAD its parent_id names change places
C21_AttrOrderDoesNotMatter ==
    parse_pc = "parsed" =>
        \A i, j \in 1..Len(payload) :
            IsAttrOf(payload, i, j) =>
                parsed_footprint = parse(Exchanged(payload, i, j))

\* an ATTR line ahead of its FILL's line stops the decoding, and behind it
\* the same payload decodes with the attribute attached
C21_AttrAheadOfParentPanics ==
    /\ parse_pc = "parsed"
    /\ payload = <<CanvasLine, AttrLine("a1", "e1"), FillLine("e1")>>
    /\ parsed_footprint = ParsePanic
    /\ parse(Exchanged(payload, 2, 3)).status = "ok"
    /\ parse(Exchanged(payload, 2, 3)).fills["e1"].attributes = <<AttrLine("a1", "e1")>>


-----------------------------------------------------------------------------
(* Claims about the pads of a translated footprint                         *)

\* a pad has a drill exactly when it goes through the board
DrillMatchesType(ki_pad) ==
    ki_pad.drill.some <=> ki_pad.pad_type \in {"ThruHole", "NpThruHole"}

\* C22: every pad of a returned footprint has a drill definition if and
\* only if its type is ThruHole or NpThruHole, whether it was made from a
\* PAD, from a VIA or from a circle fill on a MULTI layer
C22_DrillIffThroughHole ==
    fp_pc = "ok" =>
        \A i \in 1..Len(footprint.pads) : DrillMatchesType(footprint.pads[i])

\* a footprint returned with the pad of a circle fill, a surface pad, a pad
\* with a hole and the pad of a via
C22_PadsOfEveryOrigin ==
    /\ fp_pc = "ok"
    /\ Len(eda_footprint.vias) = 1
    /\ Len(footprint.pads) = 4
    /\ footprint.pads[1].pad_type = "NpThruHole" /\ footprint.pads[1].drill.some
    /\ footprint.pads[2].pad_type = "Smd" /\ ~footprint.pads[2].drill.some
    /\ footprint.pads[3].pad_type = "ThruHole" /\ footprint.pads[3].drill.some
    /\ footprint.pads[4].pad_type = "ThruHole" /\ footprint.pads[4].drill.some
    /\ footprint.pads[4].number = ""

RECURSIVE SourcePoints(_, _, _)
\* the points (x, y) a flat path names, in EasyEDA units: the pairs after M
\* and L and the end points after the angle of ARC and CARC
SourcePoints(flat, i, acc) ==
    IF i > Len(flat) THEN acc
    ELSE IF is_string(flat[i])
    THEN IF flat[i].s \in {"ARC", "CARC"}
         THEN SourcePoints(flat, i + 4, Append(acc, <<flat[i + 2].n, flat[i + 3].n>>))
         ELSE SourcePoints(flat, i + 1, acc)
    ELSE SourcePoints(flat, i + 2, Append(acc, <<flat[i].n, flat[i + 1].n>>))

\* the point of a primitive relative to the pad anchor, in 1/10000 mm
RelativeToAnchor(point, pad) ==
    <<(point[1] - pad.center_x) * scale_factor,
      0 - ((point[2] - pad.center_y) * scale_factor)>>

\* the points of the primitives of a custom pad that come from its path:
\* the ends of its arc, or the points of its polygon but the interpolated
PrimitivePoints(primitives) ==
    IF primitives.arcs # <<>>
    THEN <<primitives.arcs[1].start, primitives.arcs[1].end>>
    ELSE IF primitives.polygons # <<>>
    THEN SelectSeq(primitives.polygons[1].points, LAMBDA q : Len(q) = 2)
    ELSE <<>>

\* the footprint is one custom pad whose path is made of M, L, ARC and CARC
IsCustomPad ==
    /\ Len(eda_footprint.pads) = 1
    /\ is_str(eda_footprint.pads[1].path.v.a[1], "POLY")
    /\ \A i \in 1..Len(eda_footprint.pads[1].path.v.a[2].a) :
          LET token == eda_footprint.pads[1].path.v.a[2].a[i]
          IN  is_string(token) => token.s \in {"M", "L", "ARC", "CARC"}

\* C23: every point of the primitives of a custom pad centred at (cx, cy)
\* is ((x - cx) * 0.0254, -(y - cy) * 0.0254) for its source point (x, y),
\* for the vertices of M and L and for the ends of ARC and CARC alike
C23_PrimitivesRelativeToAnchor ==
    (fp_pc = "ok" /\ IsCustomPad) =>
        LET pad == eda_footprint.pads[1]
            source == SourcePoints(pad.path.v.a[2].a, 1, <<>>)
        IN  PrimitivePoints(footprint.pads[1].primitives.v)
               = [i \in 1..Len(source) |-> RelativeToAnchor(source[i], pad)]

\* the arc from (90, 90) to (110, 110) of a pad centred at (100, 100) ends
\* at (0.254, -5.334) mm instead of (0.254, -0.254) mm
C23_ArcEndOffTheAnchor ==
    /\ fp_pc = "ok" /\ IsCustomPad
    /\ eda_footprint.pads[1].path.v.a[2].a[4] = Str("ARC")
    /\ footprint.pads[1].primitives.v.arcs[1].start = <<0 - 2540, 2540>>
    /\ footprint.pads[1].primitives.v.arcs[1].end = <<2540, 0 - 53340>>

-----------------------------------------------------------------------------
(* Claims about the cut-outs of a translated footprint                     *)

\* the primitives of a footprint, whatever their kind
Primitives(fp) == fp.lines \o fp.arcs \o fp.circles \o fp.polygons \o fp.rectangles

\* the sub-paths of a fill as try_into walks them (footprint.rs 300-307)
SubPaths(fill) ==
    IF is_array(fill.path.a[1]) THEN fill.path.a ELSE <<fill.path>>

\* the fill is on a MULTI layer and has a sub-path that is no CIRCLE
HasOutlineCutout(fill) ==
    /\ fill.layer.layer_type = "MULTI"
    /\ fill.path.a # <<>>
    /\ \E i \in 1..Len(SubPaths(fill)) :
          LET sub_path == SubPaths(fill)[i]
          IN  sub_path.a # <<>> /\ ~is_str(sub_path.a[1], "CIRCLE")

\* the fill is on a MULTI layer and has a sub-path that is a CIRCLE
HasCircleCutout(fill) ==
    /\ fill.layer.layer_type = "MULTI"
    /\ fill.path.a # <<>>
    /\ \E i \in 1..Len(SubPaths(fill)) :
          LET sub_path == SubPaths(fill)[i]
          IN  sub_path.a # <<>> /\ is_str(sub_path.a[1], "CIRCLE")

\* C24: a fill on a MULTI layer whose path is not a CIRCLE gives a
\* primitive on Edge.Cuts, and the stroke of a primitive on Edge.Cuts is
\* 0.05 mm wide (50000 in the millionths of a millimetre widths are kept in)
C24_CutoutStrokeIsFiveHundredths ==
    (fp_pc = "ok" /\ \E i \in 1..Len(eda_footprint.fills) :
                        HasOutlineCutout(eda_footprint.fills[i])) =>
        /\ \E i \in 1..Len(Primitives(footprint)) :
              Primitives(footprint)[i].layer = "EdgeCuts"
        /\ \A i \in 1..Len(Primitives(footprint)) :
              Primitives(footprint)[i].layer = "EdgeCuts" =>
                 Primitives(footprint)[i].width = 50000

\* the line of a MULTI fill is on Edge.Cuts with a stroke of 0.00127 mm
C24_CutoutStrokeIsScaled ==
    /\ fp_pc = "ok"
    /\ eda_footprint.fills # <<>>
    /\ HasOutlineCutout(eda_footprint.fills[1])
    /\ eda_footprint.fills[1].path = LinePath
    /\ Len(footprint.lines) = 1
    /\ footprint.lines[1].layer = "EdgeCuts"
    /\ footprint.lines[1].width = 5 * scale_factor

-----------------------------------------------------------------------------
(* Claims about the footprint type                                         *)

\* a PAD with a hole or a circle fill on a MULTI layer
HasThroughElement(self) ==
    \/ \E i \in 1..Len(self.pads) : ~is_null(self.pads[i].hole.v)
    \/ \E i \in 1..Len(self.fills) : HasCircleCutout(self.fills[i])

\* C28: the footprint type of a returned footprint is ThroughHole whenever
\* a PAD has a hole or a circle fill on a MULTI layer exists, and Smd
\* otherwise, in whatever order the pads are met
C28_TypeFromElementsNotOrder ==
    fp_pc = "ok" =>
        footprint.footprint_type =
            IF HasThroughElement(eda_footprint) THEN "ThroughHole" ELSE "Smd"

\* a surface pad met after a pad with a hole leaves the type Smd, and the
\* same two pads met the other way round give ThroughHole
C28_LastPadDecides ==
    /\ fp_pc = "ok"
    /\ Len(eda_footprint.pads) = 2
    /\ eda_footprint.fills = <<>>
    /\ is_array(eda_footprint.pads[1].hole.v)
    /\ is_null(eda_footprint.pads[2].hole.v)
    /\ footprint.footprint_type = "Smd"
    /\ EasyEDAFootprint_try_into(
          [eda_footprint EXCEPT !.pads = <<@[2], @[1]>>]).footprint_type = "ThroughHole"

====
